---- MODULE Spec2Model ----
(***************************************************************************)
(* Adaptive signal generation and position lifecycle of the repository's   *)
(* two paper traders:                                                      *)
(*   src/intraday_v2.py     AdaptiveIntradayTrader  (variant "adaptive")   *)
(*   src/realtime_trader.py RealtimeTrader          (variant "realtime")   *)
(* and the paper simulator of src/improved_simulator.py                    *)
(*   run_simulation / VolatilitySimulator          (variant "simulator")   *)
(* together with the programs around them:                                 *)
(*   src/multi_strategy_v2.py  MultiStrategyTrader (variant "multi")       *)
(*   src/ibkr_trader_v3.py     VolatilityTrader    (variant "volatility")  *)
(*   src/market_hours_trader.py MarketHoursTrader  (variant "hours")       *)
(*   src/trading_dashboard.py  TradingData         (variant "dashboard")   *)
(*                                                                         *)
(* Units.  Prices are integers in cents.  Percent parameters (stop-loss,   *)
(* take-profit) are in 1/1000 (0.005 is 5).  Scores, weights and the       *)
(* confidence threshold are in 1/100 (0.45 is 45).  change_1m and the      *)
(* averaged volatility are in 1/10000 (0.001 is 10).  Time is in seconds   *)
(* since midnight of the day the process starts.  The source computes in   *)
(* IEEE doubles; the model computes exactly, and its inputs are taken off  *)
(* the exact thresholds, where rounding would decide a comparison.  The    *)
(* one place where rounding decides within the inputs, score ties of       *)
(* TechnicalAnalyzer.analyze, is modelled by FloatTiesLong.                *)
(***************************************************************************)
EXTENDS Integers, Sequences, FiniteSets, TLC

VARIABLES
    variant,            \* which program runs: "adaptive" | "realtime" | "simulator" |
                        \* "multi" | "volatility" | "hours" | "dashboard"
    symbols,            \* config.symbols
    pc,                 \* position of run(): see run_next
    now,                \* datetime.now()
    vol_samples,        \* calculate_market_volatility: the local list volatilities
    vol_info,           \* AdaptiveIntradayTrader.vol_info (a dict; None before run)
    positions,          \* self.positions
    pnl_history,        \* self.pnl_history
    last_trade_time,    \* AdaptiveIntradayTrader.last_trade_time
    last_signal_time,   \* RealtimeAnalyzer.last_signal_time
    scan_count,         \* run's scan_count / self.scan_count
    checked,            \* check_positions: per loop iteration, the position and the data fetched
    close_signals,      \* check_positions: its result, the list close_signals
    scanned,            \* scan: per symbol evaluated, the data fetched
    signals,            \* the scan's result, the list signals
    cycle_log,          \* what the current cycle has done so far, in order
    last_close_time,    \* history: the time of the latest close_position per symbol
    S_pc,               \* position of run_simulation: "off" | "scan" | "trade" | "done"
    S_signals,          \* run_simulation: the local list signals
    S_index,            \* run_simulation: how many signals the trading loop has taken
    S_trading_enabled,  \* VolatilitySimulator.trading_enabled
    S_cash,             \* VolatilitySimulator.cash, in dollars
    S_positions,        \* VolatilitySimulator.positions (a dict by symbol)
    S_trade_log,        \* VolatilitySimulator.trade_log
    B_pc,               \* position of a broker-backed main(): "off" | "analyze" | "execute" | "done"
    B_symbols,          \* the list parsed from --symbols
    B_trading_enabled,  \* trader.trading_enabled (set when --trade is given)
    B_signals,          \* main's signals / results list
    B_index,            \* how many signals the order loop has taken
    B_positions,        \* the dict the latest self.ibkr.get_positions() returned (its keys)
    B_held,             \* the broker account: the symbols ib.positions() reports
    B_orders,           \* the broker account: the orders ib.placeOrder has accepted
    B_trades,           \* self.trades
    H_pc,               \* position of MarketHoursTrader.run_loop: "off" | "check" | "sleep" | "done"
    H_minute,           \* is_market_open_et: total_minutes, the minute of the day in ET
    H_process,          \* self.process: "none" | "running" (poll() is None) | "exited"
    H_trading_active,   \* self.trading_active
    H_last_status,      \* self.last_status
    H_action,           \* what the latest check_and_manage did: a start, a stop, or "none"
    H_overlaps,         \* history: launches made while the previous child was still running
    D_pc,               \* per request thread of the dashboard: its position in add_trade
    D_total,            \* per request thread: the value calculate_total_pnl() returned to it
    D_trades,           \* TradingData.trades (the pnl of each trade, in cents)
    D_pnl_history       \* TradingData.pnl_history (the pnl of each point, in cents)

vars == <<variant, symbols, pc, now, vol_samples, vol_info, positions, pnl_history,
          last_trade_time, last_signal_time, scan_count, checked, close_signals,
          scanned, signals, cycle_log, last_close_time,
          S_pc, S_signals, S_index, S_trading_enabled, S_cash, S_positions, S_trade_log,
          B_pc, B_symbols, B_trading_enabled, B_signals, B_index, B_positions, B_held,
          B_orders, B_trades,
          H_pc, H_minute, H_process, H_trading_active, H_last_status, H_action, H_overlaps,
          D_pc, D_total, D_trades, D_pnl_history>>

\* The variables of src/improved_simulator.py, which the two traders never touch
simulator_vars ==
    <<S_pc, S_signals, S_index, S_trading_enabled, S_cash, S_positions, S_trade_log>>

\* The variables of src/multi_strategy_v2.py and src/ibkr_trader_v3.py
broker_vars ==
    <<B_pc, B_symbols, B_trading_enabled, B_signals, B_index, B_positions, B_held,
      B_orders, B_trades>>

\* The variables of src/market_hours_trader.py
hours_vars ==
    <<H_pc, H_minute, H_process, H_trading_active, H_last_status, H_action, H_overlaps>>

\* The variables of src/trading_dashboard.py
dashboard_vars == <<D_pc, D_total, D_trades, D_pnl_history>>

(***************************************************************************)
(* Program constants                                                       *)
(***************************************************************************)
A_max_positions == 5
A_cooldown_seconds == 30
A_time_stop == 900
A_sleep == 30
A_notional == 1000
R_max_positions == 5
R_cooldown_seconds == 15
R_min_confidence == 55
R_stop_loss == 4
R_take_profit == 6
R_time_stop == 600
R_sleep == 1
R_top_signals == 3
DaySeconds == 86400

\* pandas yields NaN for a rolling window that is not yet full; every ordered
\* comparison with NaN is False.
NaN == -999999

GT(a, b) == a # NaN /\ b # NaN /\ a > b
LT(a, b) == a # NaN /\ b # NaN /\ a < b
Abs(x) == IF x < 0 THEN -x ELSE x
AbsGT(a, b) == a # NaN /\ Abs(a) > b

\* timedelta.seconds: the seconds component of a non-negative timedelta, days dropped.
Seconds(d) == d % DaySeconds

RECURSIVE SumW(_)
SumW(rs) == IF rs = <<>> THEN 0 ELSE Head(rs).w + SumW(Tail(rs))

RECURSIVE Weights(_)
Weights(rs) == IF rs = <<>> THEN <<>> ELSE <<Head(rs).w>> \o Weights(Tail(rs))

RECURSIVE Tags(_)
Tags(rs) ==
    IF rs = <<>> THEN <<>>
    ELSE (IF Head(rs).tag = "" THEN <<>> ELSE <<Head(rs).tag>>) \o Tags(Tail(rs))

IsSide(side, r) == r.side = side
OfSide(rs, side) == SelectSeq(rs, LAMBDA r : IsSide(side, r))
FirstThree(s) == SubSeq(s, 1, IF Len(s) < 3 THEN Len(s) ELSE 3)
Rule(side, w, tag) == <<[side |-> side, w |-> w, tag |-> tag]>>

\* get_data's {} / dict.get's None: "no usable bar data for the symbol".
NoData == [empty |-> TRUE]
HasData(d) == ~d.empty

(***************************************************************************)
(* Signal scorer                                                           *)
(***************************************************************************)
\* Score ties that IEEE double addition resolves: the source adds the weights in
\* rule order, and for these (LONG weights, SHORT weights) the LONG sum comes out
\* one ulp above the SHORT sum although both are the same decimal.
FloatTiesLong ==
    { <<(<<20, 20, 20>>), (<<30, 15, 15>>)>>,
      <<(<<25, 20>>), (<<30, 15>>)>>,
      <<(<<25, 20, 20>>), (<<30, 15, 20>>)>> }

\* scores['LONG'] > scores['SHORT'] on the doubles the source accumulates.
A_long_wins(rs) ==
    \/ SumW(OfSide(rs, "LONG")) > SumW(OfSide(rs, "SHORT"))
    \/ /\ SumW(OfSide(rs, "LONG")) = SumW(OfSide(rs, "SHORT"))
       /\ <<Weights(OfSide(rs, "LONG")), Weights(OfSide(rs, "SHORT"))>> \in FloatTiesLong

A_rules(data) ==
    LET price == data.price
        mom == IF GT(data.change_1m, 10) THEN Rule("LONG", 30, "MOM+")
               ELSE IF LT(data.change_1m, -10) THEN Rule("SHORT", 30, "MOM-")
               ELSE <<>>
        rsi == IF LT(data.rsi, 35) THEN Rule("LONG", 25, "RSI<35")
               ELSE IF GT(data.rsi, 65) THEN Rule("SHORT", 25, "RSI>65")
               ELSE IF LT(data.rsi, 45) THEN Rule("LONG", 15, "")
               ELSE IF GT(data.rsi, 55) THEN Rule("SHORT", 15, "")
               ELSE <<>>
        macd == IF GT(data.macd_hist, 0) THEN Rule("LONG", 15, "")
                ELSE Rule("SHORT", 15, "")
        brk == IF GT(price, data.high_5m) THEN Rule("LONG", 35, "HH")
               ELSE IF LT(price, data.low_5m) THEN Rule("SHORT", 35, "LL")
               ELSE <<>>
        vol == IF GT(data.volume_ratio, 2) /\ AbsGT(data.change_1m, 5)
               THEN Rule(IF GT(data.change_1m, 0) THEN "LONG" ELSE "SHORT", 20, "VOL+")
               ELSE <<>>
        \* deviation = (price - sma_20) / sma_20 if sma_20 > 0 else 0, against -+0.01
        mr == IF ~GT(data.sma_20, 0) THEN <<>>
              ELSE IF (price - data.sma_20) * 100 < -data.sma_20 THEN Rule("LONG", 20, "")
              ELSE IF (price - data.sma_20) * 100 > data.sma_20 THEN Rule("SHORT", 20, "")
              ELSE <<>>
        bb == IF LT(price, data.bb_lower) THEN Rule("LONG", 20, "")
              ELSE IF GT(price, data.bb_upper) THEN Rule("SHORT", 20, "")
              ELSE <<>>
    IN  mom \o rsi \o macd \o brk \o vol \o mr \o bb

\* confidence < threshold, confidence = num / den
BelowThreshold(conf, threshold) == conf.num * 100 < threshold * conf.den

\* The decision of TechnicalAnalyzer.analyze on the triggered rules: <<>> is None.
A_decide_nothreshold(rs, threshold) ==
    LET long == SumW(OfSide(rs, "LONG"))
        short == SumW(OfSide(rs, "SHORT"))
        total == long + short
        direction == IF A_long_wins(rs) THEN "LONG" ELSE "SHORT"
        confidence == [num |-> IF direction = "LONG" THEN long ELSE short, den |-> total]
    IN  IF total = 0 THEN <<>>
        ELSE <<[direction |-> direction, confidence |-> confidence]>>
A_decide(rs, threshold) ==
    LET long == SumW(OfSide(rs, "LONG"))
        short == SumW(OfSide(rs, "SHORT"))
        total == long + short
        direction == IF A_long_wins(rs) THEN "LONG" ELSE "SHORT"
        confidence == [num |-> IF direction = "LONG" THEN long ELSE short, den |-> total]
    IN  IF total = 0 THEN <<>>
        ELSE IF BelowThreshold(confidence, threshold) THEN <<>>
        ELSE <<[direction |-> direction, confidence |-> confidence]>>

\* TechnicalAnalyzer.analyze(data, vol_info): <<>> for None, <<signal>> otherwise.
A_analyze(data, vol, t) ==
    IF ~HasData(data) THEN <<>>
    ELSE LET d == A_decide(A_rules(data), vol.threshold)
             details == Tags(A_rules(data))
         IN  IF d = <<>> THEN <<>>
             ELSE <<[symbol |-> data.symbol,
                     direction |-> d[1].direction,
                     entry_price |-> data.price,
                     confidence |-> d[1].confidence,
                     strategy |-> IF details = <<>> THEN <<"Mixed">> ELSE FirstThree(details),
                     timestamp |-> t]>>

\* cooldown test of should_trade / analyze_symbol:
\* symbol in reg and (now - reg[symbol]).seconds < cooldown
CoolingDown(reg, symbol, t, cooldown) ==
    symbol \in DOMAIN reg /\ Seconds(t - reg[symbol]) < cooldown

R_rules(data) ==
    LET price == data.price
        mom == IF GT(data.change_1m, 8) THEN Rule("LONG", 35, "M+")
               ELSE IF LT(data.change_1m, -8) THEN Rule("SHORT", 35, "M-")
               ELSE <<>>
        rsi == IF LT(data.rsi, 35) THEN Rule("LONG", 25, "RSI<35")
               ELSE IF GT(data.rsi, 65) THEN Rule("SHORT", 25, "RSI>65")
               ELSE <<>>
        macd == IF GT(data.macd_hist, 0) THEN Rule("LONG", 15, "")
                ELSE Rule("SHORT", 15, "")
        brk == IF GT(price, data.high_5m) THEN Rule("LONG", 40, "HH")
               ELSE IF LT(price, data.low_5m) THEN Rule("SHORT", 40, "LL")
               ELSE <<>>
        vol == IF GT(data.volume_ratio, 2) /\ AbsGT(data.change_1m, 5)
               THEN Rule(IF GT(data.change_1m, 0) THEN "LONG" ELSE "SHORT", 25, "VOL+")
               ELSE <<>>
        bb == IF LT(price, data.bb_lower) THEN Rule("LONG", 20, "BB-L")
              ELSE IF GT(price, data.bb_upper) THEN Rule("SHORT", 20, "BB-U")
              ELSE <<>>
    IN  mom \o rsi \o macd \o brk \o vol \o bb

\* The decision of RealtimeAnalyzer.analyze_symbol on the triggered rules.
R_decide(rs) ==
    LET long == SumW(OfSide(rs, "LONG"))
        short == SumW(OfSide(rs, "SHORT"))
        total == long + short
        direction == IF long > short THEN "LONG" ELSE "SHORT"
        confidence == [num |-> IF direction = "LONG" THEN long ELSE short, den |-> total]
    IN  IF total = 0 THEN <<>>
        ELSE IF BelowThreshold(confidence, R_min_confidence) THEN <<>>
        ELSE <<[direction |-> direction, confidence |-> confidence]>>

\* RealtimeAnalyzer.analyze_symbol(symbol, data) at time t with registry reg.
R_analyze_symbol_nocooldown(symbol, data, reg, t) ==
    LET d == R_decide(R_rules(data))
    IN  IF d = <<>> THEN <<>>
        ELSE <<[symbol |-> symbol,
                direction |-> d[1].direction,
                entry_price |-> data.price,
                confidence |-> d[1].confidence,
                strategy |-> FirstThree(Tags(R_rules(data))),
                timestamp |-> t]>>
R_analyze_symbol(symbol, data, reg, t) ==
    IF CoolingDown(reg, symbol, t, R_cooldown_seconds) THEN <<>>
    ELSE LET d == R_decide(R_rules(data))
         IN  IF d = <<>> THEN <<>>
             ELSE <<[symbol |-> symbol,
                     direction |-> d[1].direction,
                     entry_price |-> data.price,
                     confidence |-> d[1].confidence,
                     strategy |-> FirstThree(Tags(R_rules(data))),
                     timestamp |-> t]>>

(***************************************************************************)
(* Volatility regime classifier                                            *)
(***************************************************************************)
RECURSIVE SumSeq(_)
SumSeq(s) == IF s = <<>> THEN 0 ELSE Head(s) + SumSeq(Tail(s))

\* The chain with the names of the two middle levels exchanged
A_level_exchanged(vols) ==
    IF SumSeq(vols) < 150 * Len(vols) THEN "low"
    ELSE IF SumSeq(vols) < 300 * Len(vols) THEN "high"
    ELSE IF SumSeq(vols) < 500 * Len(vols) THEN "normal"
    ELSE "extreme"

\* level by the breakpoints 0.015 / 0.03 / 0.05 on avg_vol = mean(volatilities)
A_level(vols) ==
    IF SumSeq(vols) < 150 * Len(vols) THEN "low"
    ELSE IF SumSeq(vols) < 300 * Len(vols) THEN "normal"
    ELSE IF SumSeq(vols) < 500 * Len(vols) THEN "high"
    ELSE "extreme"

\* The stop-loss table with the value of normal repeated for high
A_level_stop_loss_flat(level) ==
    IF level = "low" THEN 3 ELSE IF level = "normal" THEN 5
    ELSE IF level = "high" THEN 5 ELSE 12

A_level_stop_loss(level) ==
    IF level = "low" THEN 3 ELSE IF level = "normal" THEN 5
    ELSE IF level = "high" THEN 8 ELSE 12

A_level_take_profit(level) ==
    IF level = "low" THEN 5 ELSE IF level = "normal" THEN 8
    ELSE IF level = "high" THEN 12 ELSE 18

volatility_thresholds(level) ==
    IF level = "low" THEN 35 ELSE IF level = "normal" THEN 45
    ELSE IF level = "high" THEN 55 ELSE 65

\* MarketVolatility.calculate_market_volatility on the usable samples vols;
\* the result is the dict it returns (avg_change and symbol_vols are report-only
\* and left out; avg_vol is rounded down to 1/10000).
calculate_market_volatility(vols) ==
    IF vols = <<>>
    THEN [level |-> "normal", threshold |-> 45, avg_vol |-> 200]
    ELSE [level |-> A_level(vols),
          threshold |-> volatility_thresholds(A_level(vols)),
          avg_vol |-> SumSeq(vols) \div Len(vols),
          stop_loss |-> A_level_stop_loss(A_level(vols)),
          take_profit |-> A_level_take_profit(A_level(vols))]

\* A report that prints whatever keys the dict has and never raises
print_volatility_report_lenient(vol) == TRUE

\* print_volatility_report reads these keys of vol_info; a missing one raises KeyError.
print_volatility_report_ok(vol) ==
    {"level", "avg_vol", "threshold", "stop_loss", "take_profit"} \subseteq DOMAIN vol

(***************************************************************************)
(* Position lifecycle                                                      *)
(***************************************************************************)
Hour(t) == (t \div 3600) % 24
Minute(t) == (t \div 60) % 60

HeldSymbols(pos) == {pos[i].symbol : i \in DOMAIN pos}
WithoutSymbol(pos, symbol) == SelectSeq(pos, LAMBDA p : p.symbol # symbol)

\* dict assignment reg[symbol] = t
Put(reg, symbol, t) == [s \in DOMAIN reg \cup {symbol} |-> IF s = symbol THEN t ELSE reg[s]]

\* int(10000 * position_size / entry_price), entry_price in cents
Quantity(entry_price) == (A_notional * 100) \div entry_price

\* Position(...) with the LONG expressions used for either direction
NewPosition_undirected(sig, sl, tp, t) ==
    [symbol |-> sig.symbol,
     direction |-> sig.direction,
     entry_price |-> sig.entry_price,
     quantity |-> Quantity(sig.entry_price),
     entry_time |-> t,
     strategy |-> sig.strategy,
     stop_loss |-> sig.entry_price * (1000 - sl),
     take_profit |-> sig.entry_price * (1000 + tp)]

\* Position(...) as run() builds it; stop_loss and take_profit in 1/1000 cent
NewPosition(sig, sl, tp, t) ==
    [symbol |-> sig.symbol,
     direction |-> sig.direction,
     entry_price |-> sig.entry_price,
     quantity |-> Quantity(sig.entry_price),
     entry_time |-> t,
     strategy |-> sig.strategy,
     stop_loss |-> IF sig.direction = "LONG" THEN sig.entry_price * (1000 - sl)
                   ELSE sig.entry_price * (1000 + sl),
     take_profit |-> IF sig.direction = "LONG" THEN sig.entry_price * (1000 + tp)
                     ELSE sig.entry_price * (1000 - tp)]

\* AdaptiveIntradayTrader.should_trade(symbol)
A_should_trade(symbol, reg, pos, t) ==
    /\ ~CoolingDown(reg, symbol, t, A_cooldown_seconds)
    /\ symbol \notin HeldSymbols(pos)
    /\ Len(pos) < A_max_positions

\* pnl_pct of check_positions times entry_price, in cents
PnlCents(p, current) ==
    IF p.direction = "LONG" THEN current - p.entry_price ELSE p.entry_price - current

\* The if / elif chain of check_positions for one position whose price is known:
\* pnl_pct >= take_profit, pnl_pct <= -stop_loss, held .seconds > time_stop.
ExitReason_time_first(p, current, sl, tp, time_stop, t) ==
    IF Seconds(t - p.entry_time) > time_stop THEN "TIME_STOP"
    ELSE IF PnlCents(p, current) * 1000 >= tp * p.entry_price THEN "TAKE_PROFIT"
    ELSE IF PnlCents(p, current) * 1000 <= -(sl * p.entry_price) THEN "STOP_LOSS"
    ELSE "NONE"
ExitReason(p, current, sl, tp, time_stop, t) ==
    IF PnlCents(p, current) * 1000 >= tp * p.entry_price THEN "TAKE_PROFIT"
    ELSE IF PnlCents(p, current) * 1000 <= -(sl * p.entry_price) THEN "STOP_LOSS"
    ELSE IF Seconds(t - p.entry_time) > time_stop THEN "TIME_STOP"
    ELSE "NONE"

\* check_positions: the loop over self.positions, fetch[i] the data got for positions[i]
RECURSIVE check_positions_stale(_, _, _, _, _, _, _)
check_positions_stale(pos, fetch, i, sl, tp, time_stop, t) ==
    IF i > Len(pos) THEN <<>>
    ELSE LET current == IF HasData(fetch[i]) THEN fetch[i].price ELSE pos[i].entry_price
             reason == ExitReason(pos[i], current, sl, tp, time_stop, t)
         IN  (IF reason = "NONE" THEN <<>>
              ELSE <<[pos |-> pos[i], reason |-> reason, price |-> current]>>)
             \o check_positions_stale(pos, fetch, i + 1, sl, tp, time_stop, t)
RECURSIVE check_positions(_, _, _, _, _, _, _)
check_positions(pos, fetch, i, sl, tp, time_stop, t) ==
    IF i > Len(pos) THEN <<>>
    ELSE IF ~HasData(fetch[i]) THEN check_positions(pos, fetch, i + 1, sl, tp, time_stop, t)
    ELSE LET reason == ExitReason(pos[i], fetch[i].price, sl, tp, time_stop, t)
         IN  (IF reason = "NONE" THEN <<>>
              ELSE <<[pos |-> pos[i], reason |-> reason, price |-> fetch[i].price]>>)
             \o check_positions(pos, fetch, i + 1, sl, tp, time_stop, t)

\* The entry with the LONG expression for pnl whatever the direction
ClosedTrade_long_only(p, reason, exit_price, t) ==
    [symbol |-> p.symbol,
     direction |-> p.direction,
     entry_price |-> p.entry_price,
     exit_price |-> exit_price,
     quantity |-> p.quantity,
     pnl |-> (exit_price - p.entry_price) * p.quantity,
     reason |-> reason,
     duration |-> Seconds(t - p.entry_time),
     strategy |-> p.strategy]

\* The pnl_history entry close_position appends.
ClosedTrade(p, reason, exit_price, t) ==
    [symbol |-> p.symbol,
     direction |-> p.direction,
     entry_price |-> p.entry_price,
     exit_price |-> exit_price,
     quantity |-> p.quantity,
     pnl |-> PnlCents(p, exit_price) * p.quantity,
     reason |-> reason,
     duration |-> Seconds(t - p.entry_time),
     strategy |-> p.strategy]

\* The trader's mutable fields as one value, for the loops that update them.
Book(pos, hist, reg, closed) ==
    [positions |-> pos, pnl_history |-> hist, registry |-> reg, closed |-> closed]

\* close_position writing the new entry in front of the ledger
A_close_position_in_front(b, c, t) ==
    [positions |-> WithoutSymbol(b.positions, c.pos.symbol),
     pnl_history |-> <<ClosedTrade(c.pos, c.reason, c.price, t)>> \o b.pnl_history,
     registry |-> Put(b.registry, c.pos.symbol, t),
     closed |-> Put(b.closed, c.pos.symbol, t)]

\* AdaptiveIntradayTrader.close_position
A_close_position(b, c, t) ==
    [positions |-> WithoutSymbol(b.positions, c.pos.symbol),
     pnl_history |-> Append(b.pnl_history, ClosedTrade(c.pos, c.reason, c.price, t)),
     registry |-> Put(b.registry, c.pos.symbol, t),
     closed |-> Put(b.closed, c.pos.symbol, t)]

\* RealtimeTrader.close_position
R_close_position(b, c, t) ==
    [positions |-> WithoutSymbol(b.positions, c.pos.symbol),
     pnl_history |-> Append(b.pnl_history, ClosedTrade(c.pos, c.reason, c.price, t)),
     registry |-> b.registry,
     closed |-> Put(b.closed, c.pos.symbol, t)]

\* for pos, reason, price in close_signals: self.close_position(pos, reason, price)
RECURSIVE A_close_all(_, _, _)
A_close_all(b, cs, t) ==
    IF cs = <<>> THEN b ELSE A_close_all(A_close_position(b, Head(cs), t), Tail(cs), t)

RECURSIVE R_close_all(_, _, _)
R_close_all(b, cs, t) ==
    IF cs = <<>> THEN b ELSE R_close_all(R_close_position(b, Head(cs), t), Tail(cs), t)

\* get_data puts the symbol into the snapshot it returns
DataOf(symbol, data) == IF HasData(data) THEN [data EXCEPT !.symbol = symbol] ELSE data

\* AdaptiveIntradayTrader.run_scan: the loop over config.symbols from index i,
\* fetch[i] the data get_data returns for syms[i]
RECURSIVE A_run_scan(_, _, _, _, _, _, _)
A_run_scan(syms, fetch, i, reg, pos, vol, t) ==
    IF i > Len(syms) THEN <<>>
    ELSE (IF A_should_trade(syms[i], reg, pos, t)
          THEN A_analyze(DataOf(syms[i], fetch[i]), vol, t)
          ELSE <<>>)
         \o A_run_scan(syms, fetch, i + 1, reg, pos, vol, t)

\* run(): for sig in signals: ... self.positions.append(position)
RECURSIVE A_open_signals_nocap(_, _, _, _)
A_open_signals_nocap(b, sigs, vol, t) ==
    IF sigs = <<>> THEN b
    ELSE IF Quantity(Head(sigs).entry_price) < 1
    THEN A_open_signals_nocap(b, Tail(sigs), vol, t)
    ELSE A_open_signals_nocap(
            [b EXCEPT !.positions = Append(@, NewPosition(Head(sigs), vol.stop_loss,
                                                          vol.take_profit, t)),
                      !.registry = Put(@, Head(sigs).symbol, t)],
            Tail(sigs), vol, t)
RECURSIVE A_open_signals(_, _, _, _)
A_open_signals(b, sigs, vol, t) ==
    IF sigs = <<>> THEN b
    ELSE IF Len(b.positions) >= A_max_positions THEN b
    ELSE IF Quantity(Head(sigs).entry_price) < 1 THEN A_open_signals(b, Tail(sigs), vol, t)
    ELSE A_open_signals(
            [b EXCEPT !.positions = Append(@, NewPosition(Head(sigs), vol.stop_loss,
                                                          vol.take_profit, t)),
                      !.registry = Put(@, Head(sigs).symbol, t)],
            Tail(sigs), vol, t)

\* RealtimeAnalyzer.fetch_all_prices: the dict it builds, as the sequence of its
\* items; a symbol listed twice keeps its first place and its last data.
RECURSIVE R_fetch_all_prices(_, _, _, _)
R_fetch_all_prices(syms, fetch, i, items) ==
    IF i > Len(syms) THEN items
    ELSE IF ~HasData(fetch[i]) THEN R_fetch_all_prices(syms, fetch, i + 1, items)
    ELSE IF \E k \in DOMAIN items : items[k].symbol = syms[i]
    THEN R_fetch_all_prices(syms, fetch, i + 1,
            [k \in DOMAIN items |->
                IF items[k].symbol = syms[i]
                THEN [symbol |-> syms[i], data |-> fetch[i]] ELSE items[k]])
    ELSE R_fetch_all_prices(syms, fetch, i + 1,
            Append(items, [symbol |-> syms[i], data |-> fetch[i]]))

\* scan_market: for symbol, data in all_data.items(): analyze_symbol
RECURSIVE R_scan_items(_, _, _)
R_scan_items(items, reg, t) ==
    IF items = <<>> THEN <<>>
    ELSE R_analyze_symbol(Head(items).symbol, Head(items).data, reg, t)
         \o R_scan_items(Tail(items), reg, t)

ConfLess(a, b) == a.confidence.num * b.confidence.den < b.confidence.num * a.confidence.den

\* signals.sort(key=confidence, reverse=True): stable, highest confidence first
RECURSIVE InsertByConfidence(_, _)
InsertByConfidence(sorted, x) ==
    IF sorted = <<>> THEN <<x>>
    ELSE IF ConfLess(Head(sorted), x) THEN <<x>> \o sorted
    ELSE <<Head(sorted)>> \o InsertByConfidence(Tail(sorted), x)

RECURSIVE SortByConfidence(_, _)
SortByConfidence(sigs, sorted) ==
    IF sigs = <<>> THEN sorted
    ELSE SortByConfidence(Tail(sigs), InsertByConfidence(sorted, Head(sigs)))

\* RealtimeAnalyzer.scan_market: the sorted signals
R_scan_market(syms, fetch, reg, t) ==
    SortByConfidence(R_scan_items(R_fetch_all_prices(syms, fetch, 1, <<>>), reg, t), <<>>)

RECURSIVE SignalTimes(_, _, _)
SignalTimes(reg, sigs, t) ==
    IF sigs = <<>> THEN reg ELSE SignalTimes(Put(reg, Head(sigs).symbol, t), Tail(sigs), t)

\* RealtimeTrader.run: for sig in signals[:3]: ... self.positions.append(position)
RECURSIVE R_open_signals(_, _, _)
R_open_signals(b, sigs, t) ==
    IF sigs = <<>> THEN b
    ELSE IF Len(b.positions) >= R_max_positions THEN b
    ELSE IF Head(sigs).symbol \in HeldSymbols(b.positions)
    THEN R_open_signals(b, Tail(sigs), t)
    ELSE IF Quantity(Head(sigs).entry_price) < 1 THEN R_open_signals(b, Tail(sigs), t)
    ELSE R_open_signals(
            [b EXCEPT !.positions = Append(@, NewPosition(Head(sigs), R_stop_loss,
                                                          R_take_profit, t))],
            Tail(sigs), t)

\* The order of the statements of run()'s loop body: the market-close test
\* ("loop"), the exit check and its closes ("check"), the scan and its opens
\* ("scan"), time.sleep ("sleep").
run_next_scan_first(step) ==
    IF step = "loop" THEN "scan"
    ELSE IF step = "scan" THEN "check"
    ELSE IF step = "check" THEN "sleep"
    ELSE "loop"
run_next(step) ==
    IF step = "loop" THEN "check"
    ELSE IF step = "check" THEN "scan"
    ELSE IF step = "scan" THEN "sleep"
    ELSE "loop"

\* if now.hour >= 15 and now.minute >= 45: break
A_market_closing(t) == Hour(t) >= 15 /\ Minute(t) >= 45
\* if market_hours_only and now.hour >= 22 and now.minute >= 0: break
R_market_closing(t) == Hour(t) >= 22 /\ Minute(t) >= 0

(***************************************************************************)
(* Bounds and the inputs the environment supplies                          *)
(***************************************************************************)
NumSymbols == 6     \* how many of config.symbols the model keeps
MaxCycles == 3      \* iterations of run()'s loop explored

A_symbols_src ==
    <<"AAPL", "MSFT", "TSLA", "NVDA", "META", "AMZN", "GOOGL", "AMD", "INTC", "COIN">>
R_symbols_src ==
    <<"AAPL", "MSFT", "AMZN", "NVDA", "META", "TSLA", "GOOGL", "GOOG", "AVGO", "COST">>
\* RealtimeConfig.symbols lists symbols twice; the first one repeated is NVDA
R_symbols_repeated == <<"NVDA">>

A_symbols == SubSeq(A_symbols_src, 1, NumSymbols)
R_symbols == SubSeq(R_symbols_src, 1, NumSymbols) \o R_symbols_repeated
\* The symbols whose feed varies from fetch to fetch
ActiveSymbols == {"AAPL"}

EmptyReg == [s \in {} |-> 0]
NoVol == [level |-> "unset"]

\* Indicator snapshots the data provider may return (the symbol is filled in by
\* DataOf).  Bull: every rule LONG.  Bear: every rule SHORT.  Dip: mixed rules.
Bull ==
    [empty |-> FALSE, symbol |-> "", price |-> 10000, change_1m |-> 20, rsi |-> 30,
     macd_hist |-> 1, volume_ratio |-> 1, sma_20 |-> 10000,
     bb_upper |-> 10200, bb_lower |-> 9800, high_5m |-> 9990, low_5m |-> 9900]
Bear ==
    [empty |-> FALSE, symbol |-> "", price |-> 10085, change_1m |-> -20, rsi |-> 70,
     macd_hist |-> -1, volume_ratio |-> 1, sma_20 |-> 10085,
     bb_upper |-> 10300, bb_lower |-> 9900, high_5m |-> 10200, low_5m |-> 10090]
Dip ==
    [empty |-> FALSE, symbol |-> "", price |-> 9949, change_1m |-> -9, rsi |-> 60,
     macd_hist |-> 1, volume_ratio |-> 1, sma_20 |-> 9949,
     bb_upper |-> 10200, bb_lower |-> 9960, high_5m |-> 10000, low_5m |-> 9900]

MarketSnapshots == {Bull, Bear, Dip}

\* What one fetch for the symbol may return: anything for an active symbol,
\* always the same quote for the others.
Feed(symbol) == IF symbol \in ActiveSymbols THEN {NoData} \cup MarketSnapshots ELSE {Bull}

\* All ways to answer one fetch per list entry; entries the code does not fetch
\* for (wanted[i] false) get NoData.
RECURSIVE FetchSeqs(_, _)
FetchSeqs(syms, wanted) ==
    IF syms = <<>> THEN {<<>>}
    ELSE {<<DataOf(Head(syms), d)>> \o rest :
            d \in (IF Head(wanted) THEN Feed(Head(syms)) ELSE {NoData}),
            rest \in FetchSeqs(Tail(syms), Tail(wanted))}

\* The usable per-symbol volatilities calculate_market_volatility may collect.
VolSampleInputs == {<<>>, <<180, 220>>}

\* Extra time one loop iteration may take beyond time.sleep (slow or hanging fetches).
A_stalls == {0, 900}
R_stalls == {0, 20, 900}

\* Wall-clock time at which run() is entered: 15:14:00 / 21:44:00.
A_start_time == 15 * 3600 + 14 * 60
R_start_time == 21 * 3600 + 44 * 60

Repeat(x, n) == [i \in 1..n |-> x]

(***************************************************************************)
(* Actions                                                                 *)
(***************************************************************************)
\* No VolatilitySimulator exists in a trader's process.
SimulatorOff ==
    /\ S_pc = "off"
    /\ S_signals = <<>>
    /\ S_index = 0
    /\ S_trading_enabled = FALSE
    /\ S_cash = 0
    /\ S_positions = EmptyReg
    /\ S_trade_log = <<>>

\* No broker-backed trader exists in the process.
BrokerOff ==
    /\ B_pc = "off"
    /\ B_symbols = <<>>
    /\ B_trading_enabled = FALSE
    /\ B_signals = <<>>
    /\ B_index = 0
    /\ B_positions = {}
    /\ B_held = {}
    /\ B_orders = <<>>
    /\ B_trades = <<>>

\* No MarketHoursTrader exists in the process.
HoursOff ==
    /\ H_pc = "off"
    /\ H_minute = 0
    /\ H_process = "none"
    /\ H_trading_active = FALSE
    /\ H_last_status = "unknown"
    /\ H_action = "none"
    /\ H_overlaps = 0

\* No dashboard server exists in the process.
DashboardOff ==
    /\ D_pc = <<>>
    /\ D_total = <<>>
    /\ D_trades = <<>>
    /\ D_pnl_history = <<>>

TraderInitAt(v, syms, t) ==
    /\ SimulatorOff /\ BrokerOff /\ HoursOff /\ DashboardOff
    /\ variant = v
    /\ symbols = syms
    /\ pc = "start"
    /\ now = t
    /\ vol_samples = <<>>
    /\ vol_info = NoVol
    /\ positions = <<>>
    /\ pnl_history = <<>>
    /\ last_trade_time = EmptyReg
    /\ last_signal_time = EmptyReg
    /\ scan_count = 0
    /\ checked = <<>>
    /\ close_signals = <<>>
    /\ scanned = <<>>
    /\ signals = <<>>
    /\ cycle_log = <<>>
    /\ last_close_time = EmptyReg

TraderInit(v, syms) ==
    TraderInitAt(v, syms, IF v = "adaptive" THEN A_start_time ELSE R_start_time)

Init == TraderInit("adaptive", A_symbols) \/ TraderInit("realtime", R_symbols)

\* run(): self.calculate_adaptive_params() = calculate_market_volatility, then
\* print_volatility_report, whose KeyError ends the process.
A_calculate_adaptive_paramsOn(samples) ==
    /\ variant = "adaptive" /\ pc = "start"
    /\ \E vols \in samples :
        /\ vol_samples' = vols
        /\ vol_info' = calculate_market_volatility(vols)
        /\ pc' = IF print_volatility_report_ok(calculate_market_volatility(vols))
                 THEN "loop" ELSE "crashed"
    /\ UNCHANGED <<simulator_vars, broker_vars, hours_vars, dashboard_vars>>
    /\ UNCHANGED <<variant, symbols, now, positions, pnl_history, last_trade_time,
                   last_signal_time, scan_count, checked, close_signals, scanned,
                   signals, cycle_log, last_close_time>>

A_calculate_adaptive_params == A_calculate_adaptive_paramsOn(VolSampleInputs)

\* RealtimeTrader.run up to its loop: only prints
R_start ==
    /\ variant = "realtime" /\ pc = "start"
    /\ pc' = "loop"
    /\ UNCHANGED <<simulator_vars, broker_vars, hours_vars, dashboard_vars>>
    /\ UNCHANGED <<variant, symbols, now, vol_samples, vol_info, positions, pnl_history,
                   last_trade_time, last_signal_time, scan_count, checked,
                   close_signals, scanned, signals, cycle_log, last_close_time>>

MarketClosing ==
    IF variant = "adaptive" THEN A_market_closing(now) ELSE R_market_closing(now)

\* while True: ... break
MarketClose ==
    /\ pc = "loop"
    /\ MarketClosing
    /\ pc' = "done"
    /\ UNCHANGED <<simulator_vars, broker_vars, hours_vars, dashboard_vars>>
    /\ UNCHANGED <<variant, symbols, now, vol_samples, vol_info, positions, pnl_history,
                   last_trade_time, last_signal_time, scan_count, checked,
                   close_signals, scanned, signals, cycle_log, last_close_time>>

BeginCycle ==
    /\ pc = "loop"
    /\ ~MarketClosing
    /\ scan_count < MaxCycles
    /\ pc' = run_next("loop")
    /\ UNCHANGED <<simulator_vars, broker_vars, hours_vars, dashboard_vars>>
    /\ UNCHANGED <<variant, symbols, now, vol_samples, vol_info, positions, pnl_history,
                   last_trade_time, last_signal_time, scan_count, checked,
                   close_signals, scanned, signals, cycle_log, last_close_time>>

Examined(pos, fetch) == [i \in DOMAIN pos |-> [pos |-> pos[i], data |-> fetch[i]]]
PositionSymbols(pos) == [i \in DOMAIN pos |-> pos[i].symbol]

\* close_signals = self.check_positions(); for ...: self.close_position(...)
A_ExitCheckOn(fetches) ==
    /\ variant = "adaptive" /\ pc = "check"
    /\ \E fetch \in fetches :
       \E cs \in {check_positions(positions, fetch, 1, vol_info.stop_loss,
                                  vol_info.take_profit, A_time_stop, now)} :
       \E b \in {A_close_all(Book(positions, pnl_history, last_trade_time,
                                  last_close_time), cs, now)} :
            /\ checked' = Examined(positions, fetch)
            /\ close_signals' = cs
            /\ positions' = b.positions
            /\ pnl_history' = b.pnl_history
            /\ last_trade_time' = b.registry
            /\ last_close_time' = b.closed
            /\ cycle_log' = cycle_log \o <<"EXIT_CHECK">> \o Repeat("CLOSE", Len(cs))
    /\ pc' = run_next("check")
    /\ UNCHANGED <<simulator_vars, broker_vars, hours_vars, dashboard_vars>>
    /\ UNCHANGED <<variant, symbols, now, vol_samples, vol_info, last_signal_time,
                   scan_count, scanned, signals>>

A_ExitCheck ==
    A_ExitCheckOn(FetchSeqs(PositionSymbols(positions), Repeat(TRUE, Len(positions))))

R_ExitCheckOn(fetches) ==
    /\ variant = "realtime" /\ pc = "check"
    /\ \E fetch \in fetches :
       \E cs \in {check_positions(positions, fetch, 1, R_stop_loss, R_take_profit,
                                  R_time_stop, now)} :
       \E b \in {R_close_all(Book(positions, pnl_history, last_signal_time,
                                  last_close_time), cs, now)} :
            /\ checked' = Examined(positions, fetch)
            /\ close_signals' = cs
            /\ positions' = b.positions
            /\ pnl_history' = b.pnl_history
            /\ last_signal_time' = b.registry
            /\ last_close_time' = b.closed
            /\ cycle_log' = cycle_log \o <<"EXIT_CHECK">> \o Repeat("CLOSE", Len(cs))
    /\ pc' = run_next("check")
    /\ UNCHANGED <<simulator_vars, broker_vars, hours_vars, dashboard_vars>>
    /\ UNCHANGED <<variant, symbols, now, vol_samples, vol_info, last_trade_time,
                   scan_count, scanned, signals>>

R_ExitCheck ==
    R_ExitCheckOn(FetchSeqs(PositionSymbols(positions), Repeat(TRUE, Len(positions))))

\* if scan_count % 2 == 0: signals = self.run_scan(); for sig in signals: ...
\* scan_count += 1
A_ScanOn(fetches) ==
    /\ variant = "adaptive" /\ pc = "scan"
    /\ scan_count % 2 = 0
    /\ \E fetch \in fetches :
       \E sigs \in {A_run_scan(symbols, fetch, 1, last_trade_time, positions,
                                 vol_info, now)} :
       \E b \in {A_open_signals(Book(positions, pnl_history, last_trade_time,
                                     last_close_time), sigs, vol_info, now)} :
            /\ scanned' = fetch
            /\ signals' = sigs
            /\ positions' = b.positions
            /\ last_trade_time' = b.registry
            /\ cycle_log' = cycle_log \o <<"SCAN">>
                            \o Repeat("OPEN", Len(b.positions) - Len(positions))
    /\ scan_count' = scan_count + 1
    /\ pc' = run_next("scan")
    /\ UNCHANGED <<simulator_vars, broker_vars, hours_vars, dashboard_vars>>
    /\ UNCHANGED <<variant, symbols, now, vol_samples, vol_info, pnl_history,
                   last_signal_time, checked, close_signals, last_close_time>>

\* get_data is called only for the symbols should_trade lets through
A_Scan ==
    A_ScanOn(FetchSeqs(symbols,
                [i \in DOMAIN symbols |->
                    A_should_trade(symbols[i], last_trade_time, positions, now)]))

A_SkipScan ==
    /\ variant = "adaptive" /\ pc = "scan"
    /\ scan_count % 2 # 0
    /\ scan_count' = scan_count + 1
    /\ pc' = run_next("scan")
    /\ UNCHANGED <<simulator_vars, broker_vars, hours_vars, dashboard_vars>>
    /\ UNCHANGED <<variant, symbols, now, vol_samples, vol_info, positions, pnl_history,
                   last_trade_time, last_signal_time, checked, close_signals, scanned,
                   signals, cycle_log, last_close_time>>

\* signals = self.analyzer.scan_market(); self.scan_count += 1; for sig in signals[:3]: ...
R_ScanOn(fetches) ==
    /\ variant = "realtime" /\ pc = "scan"
    /\ \E fetch \in fetches :
       \E sigs \in {R_scan_market(symbols, fetch, last_signal_time, now)} :
       \E b \in {R_open_signals(Book(positions, pnl_history, last_signal_time,
                                     last_close_time),
                                SubSeq(sigs, 1, IF Len(sigs) < R_top_signals
                                                THEN Len(sigs) ELSE R_top_signals), now)} :
            /\ scanned' = fetch
            /\ signals' = sigs
            /\ last_signal_time' = SignalTimes(last_signal_time, sigs, now)
            /\ positions' = b.positions
            /\ cycle_log' = cycle_log \o <<"SCAN">>
                            \o Repeat("OPEN", Len(b.positions) - Len(positions))
    /\ scan_count' = scan_count + 1
    /\ pc' = run_next("scan")
    /\ UNCHANGED <<simulator_vars, broker_vars, hours_vars, dashboard_vars>>
    /\ UNCHANGED <<variant, symbols, now, vol_samples, vol_info, pnl_history,
                   last_trade_time, checked, close_signals, last_close_time>>

R_Scan == R_ScanOn(FetchSeqs(symbols, Repeat(TRUE, Len(symbols))))

\* time.sleep(30) / time.sleep(1); the iteration's locals die here
Sleep ==
    /\ pc = "sleep"
    /\ \E stall \in (IF variant = "adaptive" THEN A_stalls ELSE R_stalls) :
        now' = now + (IF variant = "adaptive" THEN A_sleep ELSE R_sleep) + stall
    /\ checked' = <<>>
    /\ close_signals' = <<>>
    /\ scanned' = <<>>
    /\ signals' = <<>>
    /\ cycle_log' = <<>>
    /\ pc' = run_next("sleep")
    /\ UNCHANGED <<simulator_vars, broker_vars, hours_vars, dashboard_vars>>
    /\ UNCHANGED <<variant, symbols, vol_samples, vol_info, positions, pnl_history,
                   last_trade_time, last_signal_time, scan_count, last_close_time>>

Next ==
    \/ A_calculate_adaptive_params
    \/ R_start
    \/ MarketClose
    \/ BeginCycle
    \/ A_ExitCheck
    \/ R_ExitCheck
    \/ A_Scan
    \/ A_SkipScan
    \/ R_Scan
    \/ Sleep

Spec == Init /\ [][Next]_vars

(***************************************************************************)
(* A configuration whose symbol list names a symbol twice.  AdaptiveConfig *)
(* is a plain dataclass: nothing validates or deduplicates symbols.        *)
(***************************************************************************)
A_symbols_dup == <<A_symbols[1]>> \o A_symbols

InitDup == TraderInit("adaptive", A_symbols_dup) \/ TraderInit("realtime", R_symbols)

SpecDup == InitDup /\ [][Next]_vars

max_positions == IF variant = "adaptive" THEN A_max_positions ELSE R_max_positions

CountOf(pos, symbol) == Cardinality({i \in DOMAIN pos : pos[i].symbol = symbol})

(***************************************************************************)
(* C1: in both traders, after any sequence of cycles, the active position  *)
(* list holds at most one position per symbol, also when the configured    *)
(* symbol list names a symbol more than once.                              *)
(***************************************************************************)
C1_OnePositionPerSymbol ==
    \A i, j \in DOMAIN positions :
        positions[i].symbol = positions[j].symbol => i = j

(***************************************************************************)
(* C2: in every reachable state the number of open positions is at most    *)
(* max_positions (5), however many signals one scan returns.               *)
(***************************************************************************)
C2_AtMostMaxPositions == Len(positions) <= max_positions

\* A scan returned a signal for a symbol that is not held, with the book full:
\* the cap, not the held or cooldown test, kept it from becoming a position.
C2_Witness ==
    /\ pc = "sleep"
    /\ Len(positions) = max_positions
    /\ \E i \in DOMAIN signals : signals[i].symbol \notin HeldSymbols(positions)

(***************************************************************************)
(* check_positions on its own: one open position, every regime, both       *)
(* directions, holding times on either side of the ceiling, and quotes on   *)
(* either side of every stop-loss and take-profit level.                    *)
(***************************************************************************)
\* Quotes in cents.  100.85, 99.49 and 100.30 are the prices of the requirement;
\* the outer two lie beyond the widest (extreme regime) levels.
ExitPrices == {9875, 9949, 10030, 10085, 10185}
ExitHoldings == {30, 601, 901}
\* One usable-volatility sample per regime: low, normal, high, extreme.
ExitVolSamples == {<<100>>, <<180, 220>>, <<400>>, <<600>>}

ExitSignal(direction, t) ==
    [symbol |-> "AAPL", direction |-> direction, entry_price |-> 10000,
     confidence |-> [num |-> 1, den |-> 1], strategy |-> <<>>, timestamp |-> t]

ExitInitAt(traders, holdings, at) ==
    \E v \in traders, direction \in {"LONG", "SHORT"},
       held \in holdings, vols \in ExitVolSamples :
        /\ variant = v
        /\ SimulatorOff /\ BrokerOff /\ HoursOff /\ DashboardOff
        /\ symbols = (IF v = "adaptive" THEN A_symbols ELSE R_symbols)
        /\ pc = at
        /\ vol_samples = (IF v = "adaptive" THEN vols ELSE <<>>)
        /\ vol_info = (IF v = "adaptive" THEN calculate_market_volatility(vols) ELSE NoVol)
        /\ now = (IF v = "adaptive" THEN A_start_time ELSE R_start_time) + held
        /\ positions =
             <<NewPosition(ExitSignal(direction, now - held),
                           IF v = "adaptive" THEN vol_info.stop_loss ELSE R_stop_loss,
                           IF v = "adaptive" THEN vol_info.take_profit ELSE R_take_profit,
                           now - held)>>
        /\ pnl_history = <<>>
        /\ last_trade_time = (IF v = "adaptive" THEN Put(EmptyReg, "AAPL", now - held)
                              ELSE EmptyReg)
        /\ last_signal_time = (IF v = "realtime" THEN Put(EmptyReg, "AAPL", now - held)
                               ELSE EmptyReg)
        /\ scan_count = 1
        /\ checked = <<>>
        /\ close_signals = <<>>
        /\ scanned = <<>>
        /\ signals = <<>>
        /\ cycle_log = <<>>
        /\ last_close_time = EmptyReg

ExitInitOn(holdings) == ExitInitAt({"adaptive", "realtime"}, holdings, "check")

ExitInit == ExitInitOn(ExitHoldings)

stop_loss == IF variant = "adaptive" THEN vol_info.stop_loss ELSE R_stop_loss
take_profit == IF variant = "adaptive" THEN vol_info.take_profit ELSE R_take_profit
time_stop == IF variant = "adaptive" THEN A_time_stop ELSE R_time_stop

\* A quote exactly on a stop-loss or take-profit level is left out: there the
\* program's floating-point pnl_pct may fall on either side of the level.
OnLevel(p, price) ==
    \/ PnlCents(p, price) * 1000 = take_profit * p.entry_price
    \/ PnlCents(p, price) * 1000 = -(stop_loss * p.entry_price)

ExitQuotes ==
    {<<d>> : d \in {NoData} \cup
        {DataOf("AAPL", [Bull EXCEPT !.price = x]) :
            x \in {y \in ExitPrices : ~OnLevel(positions[1], y)}}}

A_ExitCheckQuoted == A_ExitCheckOn(ExitQuotes)
R_ExitCheckQuoted == R_ExitCheckOn(ExitQuotes)

ExitNext == A_ExitCheckQuoted \/ R_ExitCheckQuoted

SpecExit == ExitInit /\ [][ExitNext]_vars

\* The close signals check_positions returned for the i-th examined position
SignalsFor(i) == SelectSeq(close_signals, LAMBDA c : c.pos = checked[i].pos)

\* Direction-adjusted gain of position p at the given price, times entry_price
Gain(p, price) == IF p.direction = "LONG" THEN price - p.entry_price
                  ELSE p.entry_price - price

\* The exit the requirement prescribes: take-profit, else stop-loss, else time stop
PrescribedExit(p, price) ==
    IF Gain(p, price) * 1000 >= take_profit * p.entry_price THEN <<"TAKE_PROFIT">>
    ELSE IF (-Gain(p, price)) * 1000 >= stop_loss * p.entry_price THEN <<"STOP_LOSS">>
    ELSE IF now - p.entry_time > time_stop THEN <<"TIME_STOP">>
    ELSE <<>>

registry == IF variant = "adaptive" THEN last_trade_time ELSE last_signal_time
cooldown_seconds == IF variant = "adaptive" THEN A_cooldown_seconds ELSE R_cooldown_seconds
ListedSymbols == {symbols[i] : i \in DOMAIN symbols}

(***************************************************************************)
(* C4: a symbol inside its cooldown window (fewer than cooldown_seconds    *)
(* since its recorded timestamp) when a scan evaluates it receives no new  *)
(* position from that scan, whatever its indicators are, and the same      *)
(* holds for every further scan inside the window.                         *)
(***************************************************************************)
C4_CooldownSuppresses ==
    [][pc = "scan" =>
        \A s \in ListedSymbols :
            CoolingDown(registry, s, now, cooldown_seconds)
                => CountOf(positions', s) <= CountOf(positions, s)]_vars

\* After a scan: a listed symbol, not held, still inside the window it was in
\* when the scan ran, whose fetched indicators qualify for a signal; its
\* position was closed in an earlier cycle, so this is not the first scan of
\* the window that passed it over.
C4_Witness ==
    /\ variant = "realtime" /\ pc = "sleep"
    /\ \E i \in DOMAIN scanned :
        /\ HasData(scanned[i])
        /\ scanned[i].symbol \notin HeldSymbols(positions)
        /\ CoolingDown(last_signal_time, scanned[i].symbol, now, R_cooldown_seconds)
        /\ R_analyze_symbol(scanned[i].symbol, scanned[i], EmptyReg, now) # <<>>
        /\ scanned[i].symbol \in DOMAIN last_close_time
        /\ last_close_time[scanned[i].symbol] < now

(***************************************************************************)
(* C5: in both traders, closing a position for symbol s at time t resets   *)
(* s's cooldown timestamp to t, so that no new position for s is opened    *)
(* before t + cooldown_seconds.                                            *)
(***************************************************************************)
C5_CloseResetsCooldown ==
    \A s \in DOMAIN last_close_time :
        /\ s \in DOMAIN registry
        /\ registry[s] >= last_close_time[s]
        /\ \A i \in DOMAIN positions :
            positions[i].symbol = s
                => positions[i].entry_time >= last_close_time[s] + cooldown_seconds

\* The cooldown timestamp of a symbol, or "none"
Stamp(reg, s) == IF s \in DOMAIN reg THEN <<reg[s]>> ELSE <<>>

Occurrences(log, what) == Cardinality({i \in DOMAIN log : log[i] = what})

(***************************************************************************)
(* C7: in every cycle the exit check runs over every open position and all *)
(* resulting closes are applied before any signal evaluation or open of    *)
(* that cycle, so a slot freed by a close is usable by an open of the same  *)
(* cycle; the exit check also runs in cycles whose scan is skipped.        *)
(***************************************************************************)
C7_ExitsBeforeEntries ==
    /\ pc \in {"scan", "sleep"} =>
        /\ cycle_log # <<>> /\ cycle_log[1] = "EXIT_CHECK"
        /\ Occurrences(cycle_log, "EXIT_CHECK") = 1
        /\ Occurrences(cycle_log, "CLOSE") = Len(close_signals)
    /\ \A i, j \in DOMAIN cycle_log :
        (i < j /\ cycle_log[i] \in {"SCAN", "OPEN"})
            => cycle_log[j] \notin {"EXIT_CHECK", "CLOSE"}
    /\ pc = "scan" =>
        /\ \A k \in DOMAIN positions : \E i \in DOMAIN checked : checked[i].pos = positions[k]
        /\ \A k \in DOMAIN close_signals :
                close_signals[k].pos.symbol \notin HeldSymbols(positions)
        /\ Len(positions) + Len(close_signals) = Len(checked)

\* A cycle that began with a full book, closed a position and opened another in
\* the freed slot.
C7_Witness ==
    /\ pc = "sleep"
    /\ Len(positions) = max_positions
    /\ Occurrences(cycle_log, "CLOSE") >= 1
    /\ Occurrences(cycle_log, "OPEN") = Occurrences(cycle_log, "CLOSE")

(***************************************************************************)
(* The scorers on their own: one listed symbol, nothing held, every regime, *)
(* and one snapshot drawn from a grid that puts each indicator in each of   *)
(* the bands its rule distinguishes.                                        *)
(***************************************************************************)
\* (high_5m, low_5m) around a price of 100.00: no breakout, new high, new low
BreakoutBands == {<<10100, 9900>>, <<9990, 9900>>, <<10100, 10010>>}
\* (bb_upper, bb_lower): inside the bands, below the lower, above the upper
BollingerBands == {<<10200, 9800>>, <<10300, 10100>>, <<9900, 9700>>}

IndicatorGrid ==
    {[empty |-> FALSE, symbol |-> "", price |-> 10000, change_1m |-> c, rsi |-> r,
      macd_hist |-> m, volume_ratio |-> v, sma_20 |-> s,
      bb_upper |-> b[1], bb_lower |-> b[2], high_5m |-> h[1], low_5m |-> h[2]] :
        c \in {-20, -7, 0, 7, 20}, r \in {30, 40, 50, 60, 70, NaN}, m \in {-1, 1},
        v \in {1, 3}, s \in {9800, 10000, 10200},
        b \in BollingerBands, h \in BreakoutBands}

ScorerInit ==
    \E v \in {"adaptive", "realtime"}, vols \in ExitVolSamples :
        /\ variant = v
        /\ SimulatorOff /\ BrokerOff /\ HoursOff /\ DashboardOff
        /\ symbols = <<"AAPL">>
        /\ pc = "scan"
        /\ vol_samples = (IF v = "adaptive" THEN vols ELSE <<>>)
        /\ vol_info = (IF v = "adaptive" THEN calculate_market_volatility(vols) ELSE NoVol)
        /\ now = (IF v = "adaptive" THEN A_start_time ELSE R_start_time)
        /\ positions = <<>>
        /\ pnl_history = <<>>
        /\ last_trade_time = EmptyReg
        /\ last_signal_time = EmptyReg
        /\ scan_count = 0
        /\ checked = <<>>
        /\ close_signals = <<>>
        /\ scanned = <<>>
        /\ signals = <<>>
        /\ cycle_log = <<"EXIT_CHECK">>
        /\ last_close_time = EmptyReg

ScorerInputs == {<<DataOf("AAPL", d)>> : d \in IndicatorGrid}

A_ScanGrid == A_ScanOn(ScorerInputs)
R_ScanGrid == R_ScanOn(ScorerInputs)

ScorerNext == A_ScanGrid \/ R_ScanGrid

SpecScorer == ScorerInit /\ [][ScorerNext]_vars

\* The active confidence threshold, in 1/100
threshold == IF variant = "adaptive" THEN vol_info.threshold ELSE R_min_confidence

\* The rules the variant's scorer evaluates on a snapshot
rules(data) == IF variant = "adaptive" THEN A_rules(data) ELSE R_rules(data)
LongScore(data) == SumW(OfSide(rules(data), "LONG"))
ShortScore(data) == SumW(OfSide(rules(data), "SHORT"))

\* The fetched snapshots the scorer was given for a symbol in this scan
SnapshotsOf(symbol) ==
    {scanned[i] : i \in {j \in DOMAIN scanned :
                            HasData(scanned[j]) /\ scanned[j].symbol = symbol}}

(***************************************************************************)
(* C8: for every snapshot and regime, the scorer returns no signal when    *)
(* the LONG and SHORT scores are both zero, and every signal it returns    *)
(* has confidence <= 1.0 and confidence >= the active threshold.           *)
(***************************************************************************)
C8_ConfidenceInRange ==
    /\ \A i \in DOMAIN signals :
        /\ signals[i].confidence.den > 0
        /\ signals[i].confidence.num <= signals[i].confidence.den
        /\ signals[i].confidence.num * 100 >= threshold * signals[i].confidence.den
        /\ \E d \in SnapshotsOf(signals[i].symbol) : LongScore(d) + ShortScore(d) > 0
    /\ \A i \in DOMAIN scanned :
        (HasData(scanned[i]) /\ LongScore(scanned[i]) + ShortScore(scanned[i]) = 0)
            => \A k \in DOMAIN signals : signals[k].symbol # scanned[i].symbol

\* A scan in the strictest regime that returned a signal of confidence below 1,
\* for a snapshot whose two scores are both positive.
C8_Witness ==
    /\ pc = "sleep" /\ variant = "adaptive" /\ threshold = 65
    /\ Len(signals) = 1 /\ Len(scanned) = 1
    /\ signals[1].confidence.num < signals[1].confidence.den
    /\ LongScore(scanned[1]) > 0 /\ ShortScore(scanned[1]) > 0

(***************************************************************************)
(* C9: every signal the scorer emits has as direction the side whose raw   *)
(* score is strictly larger than the other side's, with confidence equal   *)
(* to that side's score divided by LONG + SHORT; equal scores are never    *)
(* resolved toward a side.                                                 *)
(***************************************************************************)
C9_StrictlyLargerSideWins ==
    \A i \in DOMAIN signals :
        \E d \in SnapshotsOf(signals[i].symbol) :
            /\ signals[i].direction = "LONG" => LongScore(d) > ShortScore(d)
            /\ signals[i].direction = "SHORT" => ShortScore(d) > LongScore(d)
            /\ signals[i].confidence =
                 [num |-> IF signals[i].direction = "LONG" THEN LongScore(d)
                          ELSE ShortScore(d),
                  den |-> LongScore(d) + ShortScore(d)]

(***************************************************************************)
(* C10: when no sampled symbol yields usable bar data,                     *)
(* calculate_market_volatility falls back to the normal regime with        *)
(* threshold 0.45, stop-loss 0.5% and take-profit 0.8%, and the consumers  *)
(* of the regime proceed with those values instead of failing.             *)
(***************************************************************************)
C10_FallbackProceeds ==
    (variant = "adaptive" /\ pc # "start" /\ vol_samples = <<>>) =>
        /\ pc # "crashed"
        /\ vol_info.level = "normal"
        /\ vol_info.threshold = 45
        /\ "stop_loss" \in DOMAIN vol_info /\ vol_info.stop_loss = 5
        /\ "take_profit" \in DOMAIN vol_info /\ vol_info.take_profit = 8

(***************************************************************************)
(* A total data outage: every fetch of every symbol fails, for the regime  *)
(* classifier, for the exit checks and for the scans.  run() may be        *)
(* entered at any time of day; a failing fetch may still be slow.          *)
(***************************************************************************)
OutageStartTimes ==
    {9 * 3600 + 30 * 60, A_start_time, 15 * 3600 + 44 * 60 + 50,
     R_start_time, 21 * 3600 + 59 * 60 + 50}

OutageInit ==
    \E t \in OutageStartTimes :
        TraderInitAt("adaptive", A_symbols, t) \/ TraderInitAt("realtime", R_symbols, t)

OutageFetch(n) == {Repeat(NoData, n)}

A_ClassifyOutage == A_calculate_adaptive_paramsOn({<<>>})
R_ExitCheckOutage == R_ExitCheckOn(OutageFetch(Len(positions)))
R_ScanOutage == R_ScanOn(OutageFetch(Len(symbols)))

OutageNext ==
    \/ A_ClassifyOutage
    \/ R_start
    \/ MarketClose
    \/ BeginCycle
    \/ R_ExitCheckOutage
    \/ R_ScanOutage
    \/ Sleep

SpecOutage == OutageInit /\ [][OutageNext]_vars

(***************************************************************************)
(* C11: starting from run(), when every symbol's data fetch fails (regime  *)
(* classifier, exit checks, scan), the trader does not crash: each cycle   *)
(* completes with no position opened or closed and no ledger entry, and    *)
(* the next cycle is scheduled after the sleep.                            *)
(***************************************************************************)
C11_OutageCyclesComplete ==
    /\ pc # "crashed"
    /\ positions = <<>>
    /\ pnl_history = <<>>
    /\ signals = <<>> /\ close_signals = <<>>
    /\ pc = "sleep" => ENABLED Sleep

(***************************************************************************)
(* The open step on its own: one listed symbol, nothing held, every regime, *)
(* and one snapshot that scores LONG, SHORT or mixed, quoted at each of a   *)
(* range of prices from one cent to beyond the notional budget.             *)
(***************************************************************************)
\* Entry prices in cents; 100000 is the last price at which one share fits
OpenPrices == {1, 2, 250, 9949, 10000, 99999, 100000, 100001, 250000}

\* The snapshot d as it reads when the symbol trades at price p: every price
\* level of d moved with the price, the price-free indicators kept.
QuotedAt(d, p) ==
    [d EXCEPT !.price = p,
              !.sma_20 = p,
              !.bb_upper = p + (d.bb_upper - d.price),
              !.bb_lower = p + (d.bb_lower - d.price),
              !.high_5m = p + (d.high_5m - d.price),
              !.low_5m = p + (d.low_5m - d.price)]

OpenInputs == {<<DataOf("AAPL", QuotedAt(d, p))>> : d \in MarketSnapshots, p \in OpenPrices}

A_ScanQuoted == A_ScanOn(OpenInputs)
R_ScanQuoted == R_ScanOn(OpenInputs)

OpenNext == A_ScanQuoted \/ R_ScanQuoted

SpecOpen == ScorerInit /\ [][OpenNext]_vars

(***************************************************************************)
(* C12: every position the open step creates has, for a LONG,              *)
(* stop_loss < entry_price < take_profit and, for a SHORT,                 *)
(* take_profit < entry_price < stop_loss, in every regime and at every     *)
(* positive entry price.  (stop_loss and take_profit are in 1/1000 cent.)  *)
(***************************************************************************)
C12_StopsStraddleEntry ==
    \A i \in DOMAIN positions :
        /\ positions[i].entry_price > 0
        /\ positions[i].direction = "LONG" =>
            /\ positions[i].stop_loss < positions[i].entry_price * 1000
            /\ positions[i].entry_price * 1000 < positions[i].take_profit
        /\ positions[i].direction = "SHORT" =>
            /\ positions[i].take_profit < positions[i].entry_price * 1000
            /\ positions[i].entry_price * 1000 < positions[i].stop_loss

\* A SHORT position opened at one cent under the widest (extreme) regime.
C12_Witness ==
    /\ variant = "adaptive" /\ vol_info.level = "extreme"
    /\ \E i \in DOMAIN positions :
        positions[i].direction = "SHORT" /\ positions[i].entry_price = 1

(***************************************************************************)
(* close_position on its own: one open position at 50.00, LONG or SHORT,    *)
(* closed by an exit check at a quote beyond the take-profit level, beyond  *)
(* the stop-loss level, or next to the entry after the time ceiling.        *)
(* close_position accepts any Position; the quantities are the one the open *)
(* step computes at 50.00 (20) and the 100 shares of the requirement's      *)
(* example.                                                                 *)
(***************************************************************************)
CloseEntryPrices == {5000}
CloseQuantities == {Quantity(5000), 100}
ClosePrices == {4900, 4999, 5001, 5100}
CloseHoldings == {30, 901}

CloseSignal(direction, entry, t) ==
    [symbol |-> "AAPL", direction |-> direction, entry_price |-> entry,
     confidence |-> [num |-> 1, den |-> 1], strategy |-> <<>>, timestamp |-> t]

CloseInit ==
    \E v \in {"adaptive", "realtime"}, direction \in {"LONG", "SHORT"},
       entry \in CloseEntryPrices, quantity \in CloseQuantities,
       held \in CloseHoldings, vols \in ExitVolSamples :
        /\ variant = v
        /\ SimulatorOff /\ BrokerOff /\ HoursOff /\ DashboardOff
        /\ symbols = (IF v = "adaptive" THEN A_symbols ELSE R_symbols)
        /\ pc = "check"
        /\ vol_samples = (IF v = "adaptive" THEN vols ELSE <<>>)
        /\ vol_info = (IF v = "adaptive" THEN calculate_market_volatility(vols) ELSE NoVol)
        /\ now = (IF v = "adaptive" THEN A_start_time ELSE R_start_time) + held
        /\ positions =
             <<[NewPosition(CloseSignal(direction, entry, now - held),
                            IF v = "adaptive" THEN vol_info.stop_loss ELSE R_stop_loss,
                            IF v = "adaptive" THEN vol_info.take_profit ELSE R_take_profit,
                            now - held) EXCEPT !.quantity = quantity]>>
        /\ pnl_history = <<>>
        /\ last_trade_time = (IF v = "adaptive" THEN Put(EmptyReg, "AAPL", now - held)
                              ELSE EmptyReg)
        /\ last_signal_time = (IF v = "realtime" THEN Put(EmptyReg, "AAPL", now - held)
                               ELSE EmptyReg)
        /\ scan_count = 1
        /\ checked = <<>>
        /\ close_signals = <<>>
        /\ scanned = <<>>
        /\ signals = <<>>
        /\ cycle_log = <<>>
        /\ last_close_time = EmptyReg

CloseQuotes ==
    {<<d>> : d \in {NoData} \cup {DataOf("AAPL", [Bull EXCEPT !.price = x]) : x \in ClosePrices}}

A_ExitCheckClose == A_ExitCheckOn(CloseQuotes)
R_ExitCheckClose == R_ExitCheckOn(CloseQuotes)

CloseNext == A_ExitCheckClose \/ R_ExitCheckClose

SpecClose == CloseInit /\ [][CloseNext]_vars

(***************************************************************************)
(* C13: the ledger entry close_position appends records                    *)
(* pnl = (exit - entry) * quantity for a LONG position and                 *)
(* pnl = (entry - exit) * quantity for a SHORT position, entry and         *)
(* quantity being those of the position closed and exit the quote it was   *)
(* closed at; a SHORT entered at 50.00 and closed at 49.00 with 100 shares *)
(* records 100.00 (pnl is in cents).                                       *)
(***************************************************************************)
C13_LedgerPnl ==
    \A i \in DOMAIN pnl_history :
        /\ \E k \in DOMAIN close_signals :
            /\ close_signals[k].pos.symbol = pnl_history[i].symbol
            /\ close_signals[k].pos.direction = pnl_history[i].direction
            /\ close_signals[k].pos.entry_price = pnl_history[i].entry_price
            /\ close_signals[k].pos.quantity = pnl_history[i].quantity
            /\ close_signals[k].price = pnl_history[i].exit_price
        /\ pnl_history[i].direction = "LONG" =>
            pnl_history[i].pnl =
                (pnl_history[i].exit_price - pnl_history[i].entry_price) * pnl_history[i].quantity
        /\ pnl_history[i].direction = "SHORT" =>
            pnl_history[i].pnl =
                (pnl_history[i].entry_price - pnl_history[i].exit_price) * pnl_history[i].quantity
        /\ (/\ pnl_history[i].direction = "SHORT"
            /\ pnl_history[i].entry_price = 5000
            /\ pnl_history[i].exit_price = 4900
            /\ pnl_history[i].quantity = 100) => pnl_history[i].pnl = 100 * 100

\* The requirement's example has been closed: SHORT, 50.00 -> 49.00, 100 shares.
C13_Witness ==
    \E i \in DOMAIN pnl_history :
        /\ pnl_history[i].direction = "SHORT"
        /\ pnl_history[i].entry_price = 5000
        /\ pnl_history[i].exit_price = 4900
        /\ pnl_history[i].quantity = 100
        /\ pnl_history[i].pnl = 100 * 100

(***************************************************************************)
(* C14: the quantity of every position the open step creates equals        *)
(* floor(notional budget * position-size fraction * confidence /           *)
(* entry_price), the confidence being that of the signal the position was  *)
(* opened from, so that the quantity scales with the confidence.           *)
(* (A_notional is budget * fraction in dollars; entry_price is in cents.)  *)
(***************************************************************************)
C14_QuantityScalesWithConfidence ==
    \A i \in DOMAIN positions : \A k \in DOMAIN signals :
        (/\ signals[k].symbol = positions[i].symbol
         /\ signals[k].entry_price = positions[i].entry_price
         /\ signals[k].timestamp = positions[i].entry_time)
        => positions[i].quantity =
             (A_notional * 100 * signals[k].confidence.num)
                 \div (signals[k].confidence.den * positions[i].entry_price)

(***************************************************************************)
(* src/improved_simulator.py: run_simulation with a VolatilitySimulator.    *)
(* Prices and cash are in whole dollars, iv_rank in percent, confidence a  *)
(* fraction.                                                                *)
(***************************************************************************)
S_initial_capital == 1000000

\* The first symbols of the --symbols default
S_symbols == <<"AAPL", "MSFT">>

\* What IBKRDataProvider.get_stock_price may return: 0.0 (not connected, no
\* price, exception) or a price; 150, 12000 and 600000 dollars
S_prices == {0, 150, 12000, 600000}

\* calculate_iv_rank: 50 when its price fetch gives 0, else uniform(30, 80)
S_iv_ranks == {35, 50, 65, 72, 79}

\* int(x / y) of Python for y > 0: truncation toward zero
Trunc(x, y) == IF x >= 0 THEN x \div y ELSE -((-x) \div y)

\* VolatilitySimulator.generate_signal, given the iv_rank calculate_iv_rank
\* returned and the price its own get_stock_price call returned
S_generate_signal(symbol, iv_rank, price) ==
    [symbol |-> symbol,
     iv_rank |-> iv_rank,
     price |-> price,
     direction |-> IF iv_rank > 70 THEN "SHORT_VOL"
                   ELSE IF iv_rank < 30 THEN "LONG_VOL" ELSE "NEUTRAL",
     confidence |-> IF iv_rank > 70
                    THEN (IF iv_rank - 50 < 50 THEN [num |-> iv_rank - 50, den |-> 50]
                          ELSE [num |-> 1, den |-> 1])
                    ELSE IF iv_rank < 30
                    THEN (IF 50 - iv_rank < 50 THEN [num |-> 50 - iv_rank, den |-> 50]
                          ELSE [num |-> 1, den |-> 1])
                    ELSE [num |-> 0, den |-> 1]]

\* position_size = self.cash * 0.02 * confidence; int(position_size / price)
S_quantity(cash, signal) ==
    Trunc(cash * signal.confidence.num, 50 * signal.confidence.den * signal.price)

\* VolatilitySimulator.execute_trade on the simulator's fields sim
S_execute_trade(sim, signal) ==
    IF ~sim.trading_enabled \/ signal.direction = "NEUTRAL" THEN sim
    ELSE IF signal.price = 0 THEN sim
    ELSE LET computed == S_quantity(sim.cash, signal)
             quantity == IF computed > 1 THEN computed ELSE 1
             cost == quantity * signal.price
             Filled(direction, action) ==
                 [sim EXCEPT
                     !.cash = @ - cost,
                     !.positions = Put(@, signal.symbol,
                         [quantity |-> quantity, entry_price |-> signal.price,
                          direction |-> direction, confidence |-> signal.confidence]),
                     !.trade_log = Append(@,
                         [symbol |-> signal.symbol, action |-> action,
                          quantity |-> quantity, price |-> signal.price])]
         IN  IF signal.direction = "LONG_VOL" /\ cost <= sim.cash
             THEN Filled("LONG", "BUY")
             ELSE IF signal.direction = "SHORT_VOL" /\ cost <= sim.cash * 2
             THEN Filled("SHORT", "SHORT")
             ELSE sim

\* No AdaptiveIntradayTrader and no RealtimeTrader exists in the process.
NoTrader ==
    /\ symbols = <<>>
    /\ pc = "off"
    /\ now = 0
    /\ vol_samples = <<>>
    /\ vol_info = NoVol
    /\ positions = <<>>
    /\ pnl_history = <<>>
    /\ last_trade_time = EmptyReg
    /\ last_signal_time = EmptyReg
    /\ scan_count = 0
    /\ checked = <<>>
    /\ close_signals = <<>>
    /\ scanned = <<>>
    /\ signals = <<>>
    /\ cycle_log = <<>>
    /\ last_close_time = EmptyReg

\* The process is the simulator's: no trader and no broker-backed program.
TraderOff ==
    /\ variant = "simulator"
    /\ NoTrader
    /\ BrokerOff /\ HoursOff /\ DashboardOff

\* run_simulation(symbols, enable_trading) after VolatilitySimulator(data)
SimulatorInit ==
    \E enable_trading \in BOOLEAN :
        /\ TraderOff
        /\ S_pc = "scan"
        /\ S_signals = <<>>
        /\ S_index = 0
        /\ S_trading_enabled = enable_trading
        /\ S_cash = S_initial_capital
        /\ S_positions = EmptyReg
        /\ S_trade_log = <<>>

\* for symbol in symbols: signal = simulator.generate_signal(symbol); signals.append(signal)
S_Scan ==
    /\ S_pc = "scan" /\ Len(S_signals) < Len(S_symbols)
    /\ \E iv_rank \in S_iv_ranks, price \in S_prices :
        S_signals' = Append(S_signals,
                            S_generate_signal(S_symbols[Len(S_signals) + 1], iv_rank, price))
    /\ UNCHANGED <<S_pc, S_index, S_trading_enabled, S_cash, S_positions, S_trade_log>>
    /\ UNCHANGED <<variant, symbols, pc, now, vol_samples, vol_info, positions, pnl_history,
                   last_trade_time, last_signal_time, scan_count, checked, close_signals,
                   scanned, signals, cycle_log, last_close_time>>
    /\ UNCHANGED <<broker_vars, hours_vars, dashboard_vars>>

\* signals.sort(key=confidence, reverse=True); if enable_trading: ...
S_Sort ==
    /\ S_pc = "scan" /\ Len(S_signals) = Len(S_symbols)
    /\ S_signals' = SortByConfidence(S_signals, <<>>)
    /\ S_pc' = IF S_trading_enabled THEN "trade" ELSE "done"
    /\ UNCHANGED <<S_index, S_trading_enabled, S_cash, S_positions, S_trade_log>>
    /\ UNCHANGED <<variant, symbols, pc, now, vol_samples, vol_info, positions, pnl_history,
                   last_trade_time, last_signal_time, scan_count, checked, close_signals,
                   scanned, signals, cycle_log, last_close_time>>
    /\ UNCHANGED <<broker_vars, hours_vars, dashboard_vars>>

\* for signal in signals: if signal['confidence'] > 0.3: simulator.execute_trade(signal)
S_Trade ==
    /\ S_pc = "trade" /\ S_index < Len(S_signals)
    /\ \E signal \in {S_signals[S_index + 1]} :
       \E sim \in {IF signal.confidence.num * 10 > 3 * signal.confidence.den
                   THEN S_execute_trade([trading_enabled |-> S_trading_enabled,
                                         cash |-> S_cash, positions |-> S_positions,
                                         trade_log |-> S_trade_log], signal)
                   ELSE [trading_enabled |-> S_trading_enabled, cash |-> S_cash,
                         positions |-> S_positions, trade_log |-> S_trade_log]} :
            /\ S_cash' = sim.cash
            /\ S_positions' = sim.positions
            /\ S_trade_log' = sim.trade_log
    /\ S_index' = S_index + 1
    /\ UNCHANGED <<S_pc, S_signals, S_trading_enabled>>
    /\ UNCHANGED <<variant, symbols, pc, now, vol_samples, vol_info, positions, pnl_history,
                   last_trade_time, last_signal_time, scan_count, checked, close_signals,
                   scanned, signals, cycle_log, last_close_time>>
    /\ UNCHANGED <<broker_vars, hours_vars, dashboard_vars>>

\* the trading loop is exhausted: status, reports, trade log file, disconnect
S_Finish ==
    /\ S_pc = "trade" /\ S_index = Len(S_signals)
    /\ S_pc' = "done"
    /\ UNCHANGED <<S_signals, S_index, S_trading_enabled, S_cash, S_positions, S_trade_log>>
    /\ UNCHANGED <<variant, symbols, pc, now, vol_samples, vol_info, positions, pnl_history,
                   last_trade_time, last_signal_time, scan_count, checked, close_signals,
                   scanned, signals, cycle_log, last_close_time>>
    /\ UNCHANGED <<broker_vars, hours_vars, dashboard_vars>>

SimulatorNext == S_Scan \/ S_Sort \/ S_Trade \/ S_Finish

SpecSimulator == SimulatorInit /\ [][SimulatorNext]_vars

(***************************************************************************)
(* C15: no position is opened when the computed quantity is below 1: the   *)
(* signal is skipped and the position set, the cash and the trade log stay *)
(* as they were.  Here for VolatilitySimulator: whenever the trading loop  *)
(* takes a tradable signal whose computed quantity is below 1, positions,  *)
(* cash and trade_log are unchanged by that step.                          *)
(***************************************************************************)
C15_NoOpenBelowOneShare ==
    [][(/\ S_pc = "trade" /\ S_index < Len(S_signals)
        /\ S_signals[S_index + 1].price > 0
        /\ S_quantity(S_cash, S_signals[S_index + 1]) < 1)
       => UNCHANGED <<S_cash, S_positions, S_trade_log>>]_vars

(***************************************************************************)
(* The classifier on its own: run() is entered and calculate_adaptive_params *)
(* collects one of a range of sample sets: none, one sample at and around   *)
(* each breakpoint, and two samples whose mean lies at or next to one.      *)
(***************************************************************************)
RegimeSamples ==
    {<<>>}
    \cup {<<v>> : v \in (140..160) \cup (290..310) \cup (490..510)}
    \cup {<<a, b>> : a, b \in {100, 149, 151, 200, 299, 301, 400, 499, 501, 600}}

RegimeInit == TraderInitAt("adaptive", A_symbols, A_start_time)

A_ClassifySamples == A_calculate_adaptive_paramsOn(RegimeSamples)

RegimeNext == A_ClassifySamples

SpecRegime == RegimeInit /\ [][RegimeNext]_vars

\* Place of a level in the order low < normal < high < extreme
Rank(level) ==
    IF level = "low" THEN 1 ELSE IF level = "normal" THEN 2
    ELSE IF level = "high" THEN 3 ELSE IF level = "extreme" THEN 4 ELSE 0

(***************************************************************************)
(* C16: the regime is monotonic in the averaged volatility: whenever the   *)
(* average of one sample set is <= the average of another, the level       *)
(* chosen for the first is not above the level chosen for the second in    *)
(* the order low < normal < high < extreme; the breakpoints 1.5%, 3% and   *)
(* 5% included.  Stated for the level published in the state against the   *)
(* level of every other sample set.                                        *)
(***************************************************************************)
C16_RegimeMonotonic ==
    vol_samples # <<>> =>
        /\ Rank(vol_info.level) \in 1..4
        /\ \A s \in RegimeSamples \ {<<>>} :
            /\ SumSeq(s) * Len(vol_samples) <= SumSeq(vol_samples) * Len(s)
                => Rank(A_level(s)) <= Rank(vol_info.level)
            /\ SumSeq(s) * Len(vol_samples) >= SumSeq(vol_samples) * Len(s)
                => Rank(A_level(s)) >= Rank(vol_info.level)

\* The mean of two samples is exactly the 3% breakpoint and the level is high.
C16_Witness ==
    /\ vol_samples = <<299, 301>>
    /\ vol_info.level = "high"
    /\ A_level(<<299>>) = "normal"

RECURSIVE total_pnl(_)
total_pnl(hist) == IF hist = <<>> THEN 0 ELSE Head(hist).pnl + total_pnl(Tail(hist))

\* What print_status and the day summary report: "Trades: {len(self.pnl_history)}"
\* and "P&L: ${total_pnl}", computed from the ledger each time they print
day_summary(hist) == [trades |-> Len(hist), total_pnl |-> total_pnl(hist)]

(***************************************************************************)
(* C18: the ledger pnl_history is append-only: in every step the old       *)
(* ledger is a prefix of the new one (no entry modified, reordered or      *)
(* removed), the exit check appends exactly one entry per close it         *)
(* performs and no other step appends any, and the reported trade count    *)
(* and total P&L are the length of the ledger and the sum of its pnl       *)
(* fields, before and after the step.                                      *)
(***************************************************************************)
C18_LedgerAppendOnly ==
    [][/\ Len(pnl_history') >= Len(pnl_history)
       /\ SubSeq(pnl_history', 1, Len(pnl_history)) = pnl_history
       /\ Len(pnl_history') - Len(pnl_history) =
            (IF pc = "check" THEN Len(close_signals') ELSE 0)
       /\ day_summary(pnl_history').trades = Cardinality(DOMAIN pnl_history')
       /\ day_summary(pnl_history').total_pnl =
            day_summary(pnl_history).total_pnl
            + total_pnl(SubSeq(pnl_history', Len(pnl_history) + 1, Len(pnl_history')))
       /\ (pnl_history' = <<>>) => day_summary(pnl_history').total_pnl = 0]_vars

\* A close has just appended one entry to a ledger that already held one.
C18_Witness ==
    /\ pc = "scan"
    /\ Len(close_signals) = 1
    /\ Len(pnl_history) >= 2
    /\ day_summary(pnl_history).trades >= 2

(***************************************************************************)
(* The scorers on snapshots with one indicator undefined.  pandas gives NaN *)
(* for an indicator whose window is not full or whose input bar has no      *)
(* value; the snapshot dict then carries NaN under the indicator's key.     *)
(***************************************************************************)
\* A snapshot none of whose indicators triggers a rule but MACD
Flat ==
    [empty |-> FALSE, symbol |-> "", price |-> 10000, change_1m |-> 0, rsi |-> 50,
     macd_hist |-> 1, volume_ratio |-> 1, sma_20 |-> 10000,
     bb_upper |-> 10200, bb_lower |-> 9800, high_5m |-> 10100, low_5m |-> 9900]

\* The indicators that may be undefined, each with the snapshot keys it fills
IndicatorKeys ==
    {{"rsi"}, {"macd_hist"}, {"volume_ratio"}, {"sma_20"},
     {"bb_upper", "bb_lower"}, {"high_5m", "low_5m"}}

Undefine(d, keys) == [k \in DOMAIN d |-> IF k \in keys THEN NaN ELSE d[k]]

MissingInputs ==
    {<<DataOf("AAPL", Undefine(d, keys))>> :
        d \in MarketSnapshots \cup {Flat}, keys \in IndicatorKeys}

A_ScanMissing == A_ScanOn(MissingInputs)
R_ScanMissing == R_ScanOn(MissingInputs)

MissingNext == A_ScanMissing \/ R_ScanMissing

SpecMissing == ScorerInit /\ [][MissingNext]_vars

\* The keys of snapshot d that hold no value
UndefinedKeys(d) ==
    {k \in {"rsi", "macd_hist", "volume_ratio", "sma_20",
            "bb_upper", "bb_lower", "high_5m", "low_5m"} : d[k] = NaN}

\* Defined readings of an indicator key, across all the bands its rule tells apart
Readings(d, k) ==
    IF k = "rsi" THEN {30, 40, 50, 60, 70}
    ELSE IF k = "macd_hist" THEN {-1, 1}
    ELSE IF k = "volume_ratio" THEN {1, 3}
    ELSE {d.price - 200, d.price, d.price + 200}

(***************************************************************************)
(* C19: for an indicator that could not be computed the scorer adds weight *)
(* to neither side: in every scan, the LONG score and the SHORT score of a *)
(* snapshot with an undefined indicator are no larger than they are for    *)
(* the same snapshot with any defined reading of that indicator.           *)
(***************************************************************************)
C19_AbsentIndicatorAddsNoWeight ==
    \A i \in DOMAIN scanned :
        HasData(scanned[i]) =>
            \A k \in UndefinedKeys(scanned[i]) : \A v \in Readings(scanned[i], k) :
                /\ LongScore(scanned[i]) <= LongScore([scanned[i] EXCEPT ![k] = v])
                /\ ShortScore(scanned[i]) <= ShortScore([scanned[i] EXCEPT ![k] = v])

(***************************************************************************)
(* C20: a symbol that has an open position when a scan starts is excluded  *)
(* from new-signal evaluation whatever its cooldown state: the scan        *)
(* returns no signal for it and leaves its cooldown timestamp as it was,   *)
(* in both traders.                                                        *)
(***************************************************************************)
C20_HeldSymbolsNotEvaluated ==
    [][pc = "scan" =>
        \A s \in HeldSymbols(positions) :
            /\ \A k \in DOMAIN signals' : signals'[k].symbol # s
            /\ (s \in DOMAIN registry) = (s \in DOMAIN registry')
            /\ s \in DOMAIN registry => registry'[s] = registry[s]]_vars

(***************************************************************************)
(* The traders around the market close: run() is entered shortly before    *)
(* the closing time, or after it (a late start or restart).                *)
(***************************************************************************)
A_closing_starts == {15 * 3600 + 44 * 60 + 50, 16 * 3600}
R_closing_starts == {21 * 3600 + 59 * 60 + 50, 22 * 3600 + 5 * 60}

ClosingInit ==
    \/ \E t \in A_closing_starts : TraderInitAt("adaptive", A_symbols, t)
    \/ \E t \in R_closing_starts : TraderInitAt("realtime", R_symbols, t)

SpecClosing == ClosingInit /\ [][Next]_vars

\* The market-closing time of the variant, in seconds of the day: 15:45 / 22:00
closing_time == IF variant = "adaptive" THEN 15 * 3600 + 45 * 60 ELSE 22 * 3600

(***************************************************************************)
(* C21: shutdown happens only at a cycle boundary: no cycle starts at or   *)
(* after the market-closing time (15:45 for the adaptive trader, 22:00 for *)
(* the realtime trader), and the step that stops the loop leaves the open  *)
(* positions and the ledger as they were.                                  *)
(***************************************************************************)
C21_NoCycleAfterClose ==
    [][/\ (pc = "loop" /\ pc' = "check") => now % DaySeconds < closing_time
       /\ (pc = "loop" /\ pc' = "done") =>
            /\ now % DaySeconds >= closing_time
            /\ positions' = positions
            /\ pnl_history' = pnl_history]_vars

\* The keys of vol_info that scoring (threshold), the exit check and the open
\* step (stop_loss, take_profit) read, with the level they belong to
RegimeKeys == {"level", "threshold", "stop_loss", "take_profit"}

(***************************************************************************)
(* C22: the regime is published as one complete value.  Whenever the       *)
(* adaptive trader is about to check exits or to scan and open, vol_info   *)
(* holds all of level, threshold, stop-loss and take-profit, and they are  *)
(* those of the regime computed from the most recent samples; and from the *)
(* publication on no step changes vol_info, so that all reads of a cycle   *)
(* observe the same regime.                                                *)
(***************************************************************************)
C22_RegimePublishedWhole ==
    [][variant = "adaptive" =>
        /\ pc' \in {"check", "scan"} =>
            /\ RegimeKeys \subseteq DOMAIN vol_info'
            /\ vol_info' = calculate_market_volatility(vol_samples')
            /\ vol_info'.threshold = volatility_thresholds(vol_info'.level)
            /\ vol_info'.stop_loss = A_level_stop_loss(vol_info'.level)
            /\ vol_info'.take_profit = A_level_take_profit(vol_info'.level)
        /\ pc # "start" => vol_info' = vol_info]_vars

\* A cycle in which the exit check, the scorer and the open step all read the regime.
C22_Witness ==
    /\ variant = "adaptive" /\ pc = "sleep"
    /\ checked # <<>>
    /\ signals # <<>>
    /\ \E i \in DOMAIN positions : positions[i].entry_time = now

(***************************************************************************)
(* The broker-backed programs: src/multi_strategy_v2.py (variant "multi")  *)
(* and src/ibkr_trader_v3.py (variant "volatility").  Prices are in whole  *)
(* dollars, changes and iv_rank in percent, hv, iv and the strategies'     *)
(* confidences in 1/1000, strategy weights in 1/10, so that buy_score and  *)
(* sell_score are in 1/10000.  A signal's confidence is the fraction num / *)
(* den the code divides out.                                               *)
(***************************************************************************)
\* The variables of src/intraday_v2.py and src/realtime_trader.py
trader_vars ==
    <<variant, symbols, pc, now, vol_samples, vol_info, positions, pnl_history,
      last_trade_time, last_signal_time, scan_count, checked, close_signals,
      scanned, signals, cycle_log, last_close_time>>

Min(a, b) == IF a < b THEN a ELSE b
Max(a, b) == IF a > b THEN a ELSE b

Vote(signal, confidence) == [signal |-> signal, confidence |-> confidence]

IVRankStrategy(data) ==
    IF data.iv_rank > 65 THEN Vote("SHORT", Min((data.iv_rank - 50) * 20, 1000))
    ELSE IF data.iv_rank < 35 THEN Vote("LONG", Min((50 - data.iv_rank) * 20, 1000))
    ELSE Vote("NEUTRAL", 0)

VIXMeanReversionStrategy(data) ==
    IF data.vix > 25 /\ data.change_5d < -3 THEN Vote("LONG", 600)
    ELSE IF data.vix < 15 /\ data.change_5d > 3 THEN Vote("SHORT", 600)
    ELSE IF data.vix > 22 THEN Vote("SHORT", 400)
    ELSE IF data.vix < 14 THEN Vote("LONG", 400)
    ELSE Vote("NEUTRAL", 0)

\* spread = (iv - hv) / hv, in 1/1000
IVHVSpreadStrategy(data) ==
    IF data.hv = 0 THEN Vote("NEUTRAL", 0)
    ELSE LET spread == Trunc((data.iv - data.hv) * 1000, data.hv)
         IN  IF spread > 300 THEN Vote("SHORT", Min(spread - 200, 800))
             ELSE IF spread < -200 THEN Vote("LONG", Min(Trunc(-spread, 2), 600))
             ELSE Vote("NEUTRAL", 0)

MomentumStrategy(data) ==
    IF data.change_5d > 3 /\ data.change_20d > 5 /\ data.iv_rank < 50
    THEN Vote("LONG", 500)
    ELSE IF data.change_5d < -3 /\ data.change_20d < -5 /\ data.iv_rank > 50
    THEN Vote("SHORT", 500)
    ELSE Vote("NEUTRAL", 0)

ContrarianStrategy(data) ==
    IF data.change_5d < -5 /\ data.iv_rank > 70 THEN Vote("LONG", 600)
    ELSE IF data.change_5d > 5 /\ data.iv_rank < 30 THEN Vote("SHORT", 600)
    ELSE Vote("NEUTRAL", 0)

TrendStrategy(data) ==
    IF data.price > data.sma_20 /\ data.sma_20 > data.sma_50 /\ data.change_5d > 0
    THEN Vote("LONG", 500)
    ELSE IF data.price < data.sma_20 /\ data.sma_20 < data.sma_50 /\ data.change_5d < 0
    THEN Vote("SHORT", 500)
    ELSE Vote("NEUTRAL", 0)

\* MultiStrategyTrader.strategies: the six strategies with their weights
strategies ==
    <<[name |-> "IVRank", weight |-> 10], [name |-> "VIXRev", weight |-> 8],
      [name |-> "IVHV", weight |-> 7], [name |-> "Momentum", weight |-> 6],
      [name |-> "Contra", weight |-> 5], [name |-> "Trend", weight |-> 5]>>

\* s.analyze(symbol, data) of strategy number k
StrategyVote(k, data) ==
    CASE k = 1 -> IVRankStrategy(data)
      [] k = 2 -> VIXMeanReversionStrategy(data)
      [] k = 3 -> IVHVSpreadStrategy(data)
      [] k = 4 -> MomentumStrategy(data)
      [] k = 5 -> ContrarianStrategy(data)
      [] k = 6 -> TrendStrategy(data)

\* the loop "for s in self.strategies" over the first k strategies
RECURSIVE Tally(_, _)
Tally(k, data) ==
    IF k = 0 THEN [buy_score |-> 0, sell_score |-> 0, strategy_votes |-> <<>>]
    ELSE LET acc == Tally(k - 1, data)
             sig == StrategyVote(k, data)
             weighted == sig.confidence * strategies[k].weight
             voted == IF sig.confidence > 300
                      THEN Append(acc.strategy_votes, strategies[k].name)
                      ELSE acc.strategy_votes
         IN  IF sig.signal = "LONG"
             THEN [buy_score |-> acc.buy_score + weighted, sell_score |-> acc.sell_score,
                   strategy_votes |-> voted]
             ELSE IF sig.signal = "SHORT"
             THEN [buy_score |-> acc.buy_score, sell_score |-> acc.sell_score + weighted,
                   strategy_votes |-> voted]
             ELSE acc

\* A decision by plain majority of the scores, without the factor 1.2
M_decide_majority(symbol, data) ==
    LET t == Tally(Len(strategies), data)
        total == Max(t.buy_score + t.sell_score, 1000)
    IN  [symbol |-> symbol,
         price |-> data.price,
         iv_rank |-> data.iv_rank,
         buy_score |-> t.buy_score,
         sell_score |-> t.sell_score,
         signal |-> IF t.buy_score > t.sell_score THEN "LONG"
                    ELSE IF t.sell_score > t.buy_score THEN "SHORT"
                    ELSE "NEUTRAL",
         confidence |-> IF t.buy_score > t.sell_score
                        THEN [num |-> t.buy_score, den |-> total]
                        ELSE IF t.sell_score > t.buy_score
                        THEN [num |-> t.sell_score, den |-> total]
                        ELSE [num |-> 0, den |-> 1],
         strategies |-> t.strategy_votes]

\* the final decision of analyze_all for one symbol, and the result it appends
\* (buy_score and sell_score are the loop's locals, kept with the result)
M_decide(symbol, data) ==
    LET t == Tally(Len(strategies), data)
        total == Max(t.buy_score + t.sell_score, 1000)
    IN  [symbol |-> symbol,
         price |-> data.price,
         iv_rank |-> data.iv_rank,
         buy_score |-> t.buy_score,
         sell_score |-> t.sell_score,
         signal |-> IF t.buy_score * 10 > t.sell_score * 12 THEN "LONG"
                    ELSE IF t.sell_score * 10 > t.buy_score * 12 THEN "SHORT"
                    ELSE "NEUTRAL",
         confidence |-> IF t.buy_score * 10 > t.sell_score * 12
                        THEN [num |-> t.buy_score, den |-> total]
                        ELSE IF t.sell_score * 10 > t.buy_score * 12
                        THEN [num |-> t.sell_score, den |-> total]
                        ELSE [num |-> 0, den |-> 1],
         strategies |-> t.strategy_votes]

\* VolatilityTrader.analyze, given the price get_price returned (0 on failure)
\* and the iv_rank calculate_iv_rank returned
V_analyze(symbol, data) ==
    [symbol |-> symbol,
     price |-> data.price,
     iv_rank |-> data.iv_rank,
     signal |-> IF data.iv_rank > 65 THEN "SHORT_VOL"
                ELSE IF data.iv_rank < 35 THEN "LONG_VOL" ELSE "NEUTRAL",
     confidence |-> IF data.iv_rank > 65
                    THEN [num |-> Min(data.iv_rank - 50, 50), den |-> 50]
                    ELSE IF data.iv_rank < 35
                    THEN [num |-> Min(50 - data.iv_rank, 50), den |-> 50]
                    ELSE [num |-> 0, den |-> 1]]

\* the results list after the analysis loop over syms, feed[i] being the data
\* fetched for the i-th symbol (NoData is {}): "if not data: continue" in analyze_all, while
\* main() of ibkr_trader_v3.py appends trader.analyze(sym) for every symbol
RECURSIVE Analysed(_, _, _, _)
Analysed(v, syms, feed, n) ==
    IF n = 0 THEN <<>>
    ELSE IF v = "multi"
    THEN (IF feed[n] = NoData THEN Analysed(v, syms, feed, n - 1)
          ELSE Append(Analysed(v, syms, feed, n - 1), M_decide(syms[n], feed[n])))
    ELSE Append(Analysed(v, syms, feed, n - 1), V_analyze(syms[n], feed[n]))

\* position size 1000000 * 0.02 * confidence; int(size / price)
B_quantity(sig) == Trunc(20000 * sig.confidence.num, sig.confidence.den * sig.price)

\* the dict appended to self.trades
B_trade(sig, action) ==
    [symbol |-> sig.symbol, action |-> action, quantity |-> B_quantity(sig),
     price |-> sig.price]

\* what ib.placeOrder hands to the broker; held records whether the account
\* already showed the symbol at that moment
B_order(sig, action) ==
    [symbol |-> sig.symbol, action |-> action, quantity |-> B_quantity(sig),
     held |-> sig.symbol \in B_held]

\* self.ibkr.buy / sell / short: placeOrder either accepts the order and the
\* call returns True, or raises and the call returns False; the trade is
\* appended only in the first case
B_place(sig, action) ==
    \E accepted \in BOOLEAN :
        IF accepted
        THEN /\ B_orders' = Append(B_orders, B_order(sig, action))
             /\ B_trades' = Append(B_trades, B_trade(sig, action))
        ELSE UNCHANGED <<B_orders, B_trades>>

\* signals = trader.analyze_all() / the analysis loop and results.sort of main
B_analyze_allOn(datas) ==
    /\ B_pc = "analyze"
    /\ \E feed \in [DOMAIN B_symbols -> datas] :
         B_signals' = SortByConfidence(
                          Analysed(variant, B_symbols, feed, Len(B_symbols)), <<>>)
    /\ B_pc' = IF ~B_trading_enabled THEN "done"
               ELSE IF variant = "multi" THEN "snapshot" ELSE "execute"
    /\ UNCHANGED <<B_symbols, B_trading_enabled, B_index, B_positions, B_held,
                   B_orders, B_trades>>
    /\ UNCHANGED <<trader_vars, simulator_vars, hours_vars, dashboard_vars>>

\* MultiStrategyTrader.execute: positions = self.ibkr.get_positions(), once
M_execute_snapshot ==
    /\ variant = "multi" /\ B_pc = "snapshot"
    /\ B_positions' = B_held
    /\ B_pc' = "execute"
    /\ UNCHANGED <<B_symbols, B_trading_enabled, B_signals, B_index, B_held,
                   B_orders, B_trades>>
    /\ UNCHANGED <<trader_vars, simulator_vars, hours_vars, dashboard_vars>>

\* MultiStrategyTrader.execute: one iteration of "for sig in signals"
M_execute_step ==
    /\ variant = "multi" /\ B_pc = "execute" /\ B_index < Len(B_signals)
    /\ \E sig \in {B_signals[B_index + 1]} :
         IF \/ sig.confidence.num * 10 < 3 * sig.confidence.den
            \/ sig.signal = "NEUTRAL"
            \/ sig.symbol \in B_positions
            \/ sig.price = 0
         THEN UNCHANGED <<B_orders, B_trades>>
         ELSE IF B_quantity(sig) < 1
         THEN UNCHANGED <<B_orders, B_trades>>
         ELSE IF sig.signal = "LONG" THEN B_place(sig, "BUY")
         ELSE B_place(sig, "SHORT")
    /\ B_index' = B_index + 1
    /\ UNCHANGED <<B_pc, B_symbols, B_trading_enabled, B_signals, B_positions, B_held>>
    /\ UNCHANGED <<trader_vars, simulator_vars, hours_vars, dashboard_vars>>

\* VolatilityTrader.execute_order(r) for the next r of "for r in results"
V_execute_order ==
    /\ variant = "volatility" /\ B_pc = "execute" /\ B_index < Len(B_signals)
    /\ \E sig \in {B_signals[B_index + 1]} :
         IF ~B_trading_enabled \/ sig.signal = "NEUTRAL" \/ sig.price = 0
         THEN UNCHANGED <<B_positions, B_orders, B_trades>>
         ELSE IF B_quantity(sig) < 1
         THEN UNCHANGED <<B_positions, B_orders, B_trades>>
         ELSE /\ B_positions' = B_held
              /\ IF sig.symbol \in B_held
                 THEN UNCHANGED <<B_orders, B_trades>>
                 ELSE IF sig.signal = "LONG_VOL" THEN B_place(sig, "BUY")
                 ELSE B_place(sig, "SHORT")
    /\ B_index' = B_index + 1
    /\ UNCHANGED <<B_pc, B_symbols, B_trading_enabled, B_signals, B_held>>
    /\ UNCHANGED <<trader_vars, simulator_vars, hours_vars, dashboard_vars>>

\* the broker fills an accepted order: from then on ib.positions() reports the symbol
B_Fill ==
    /\ B_pc \in {"execute", "done"}
    /\ \E k \in DOMAIN B_orders :
         /\ B_orders[k].symbol \notin B_held
         /\ B_held' = B_held \cup {B_orders[k].symbol}
    /\ UNCHANGED <<B_pc, B_symbols, B_trading_enabled, B_signals, B_index, B_positions,
                   B_orders, B_trades>>
    /\ UNCHANGED <<trader_vars, simulator_vars, hours_vars, dashboard_vars>>

\* the order loop is exhausted: the summary is printed and ibkr.disconnect() called
B_Finish ==
    /\ B_pc = "execute" /\ B_index = Len(B_signals)
    /\ B_pc' = "done"
    /\ UNCHANGED <<B_symbols, B_trading_enabled, B_signals, B_index, B_positions, B_held,
                   B_orders, B_trades>>
    /\ UNCHANGED <<trader_vars, simulator_vars, hours_vars, dashboard_vars>>

\* the dict MarketData.get_data returns
Data(price, change_5d, change_20d, hv, iv, iv_rank, sma_20, sma_50, vix) ==
    [price |-> price, change_5d |-> change_5d, change_20d |-> change_20d, hv |-> hv,
     iv |-> iv, iv_rank |-> iv_rank, sma_20 |-> sma_20, sma_50 |-> sma_50, vix |-> vix]

\* python multi_strategy_v2.py --symbols AAPL, without --trade
VoteSymbols == <<"AAPL">>
VoteIvRanks == {20, 50, 70, 80}
VoteVix == {13, 18, 23, 26}
VoteChanges5d == {-6, -4, 0, 4, 6}
VoteChanges20d == {-6, 0, 6}
\* <<hv, iv>>: hv 0, and spreads of -0.204, 0.2, 0.4 and 1.4
VoteVols == {<<0, 250>>, <<250, 199>>, <<250, 300>>, <<250, 350>>, <<250, 600>>}
\* <<price, sma_20, sma_50>>: rising, falling, flat
VoteTrends == {<<150, 140, 130>>, <<150, 160, 170>>, <<150, 150, 150>>}

VoteDatas ==
    {Data(tr[1], c5, c20, vol[1], vol[2], ivr, tr[2], tr[3], vix) :
        tr \in VoteTrends, c5 \in VoteChanges5d, c20 \in VoteChanges20d,
        vol \in VoteVols, ivr \in VoteIvRanks, vix \in VoteVix}

BrokerInitAt(v, syms, enable, held) ==
    /\ variant = v
    /\ NoTrader
    /\ SimulatorOff /\ HoursOff /\ DashboardOff
    /\ B_pc = "analyze"
    /\ B_symbols = syms
    /\ B_trading_enabled = enable
    /\ B_signals = <<>>
    /\ B_index = 0
    /\ B_positions = {}
    /\ B_held = held
    /\ B_orders = <<>>
    /\ B_trades = <<>>

VoteInit == BrokerInitAt("multi", VoteSymbols, FALSE, {})

VoteNext == B_analyze_allOn(VoteDatas)

SpecVotes == VoteInit /\ [][VoteNext]_vars

(***************************************************************************)
(* C23: in analyze_all the final decision is LONG only if buy_score >      *)
(* 1.2 * sell_score, SHORT only if sell_score > 1.2 * buy_score, and       *)
(* NEUTRAL with confidence 0 otherwise; the confidence reported lies in    *)
(* [0, 1] whatever the six strategies voted.                               *)
(***************************************************************************)
C23_DecisionAndConfidence ==
    variant = "multi" =>
        \A k \in DOMAIN B_signals :
            \E r \in {B_signals[k]} :
                /\ r.signal = "LONG" => r.buy_score * 10 > r.sell_score * 12
                /\ r.signal = "SHORT" => r.sell_score * 10 > r.buy_score * 12
                /\ (/\ ~(r.buy_score * 10 > r.sell_score * 12)
                    /\ ~(r.sell_score * 10 > r.buy_score * 12))
                        => r.signal = "NEUTRAL" /\ r.confidence.num = 0
                /\ r.signal \in {"LONG", "SHORT", "NEUTRAL"}
                /\ r.confidence.den > 0
                /\ 0 <= r.confidence.num
                /\ r.confidence.num <= r.confidence.den

\* a decision taken against opposing votes, and one whose scores sum to less
\* than the floor 0.1 of the divisor
C23_Witness ==
    /\ variant = "multi" /\ B_pc = "done"
    /\ \E k \in DOMAIN B_signals :
        /\ B_signals[k].signal = "LONG"
        /\ B_signals[k].sell_score = 0
        /\ B_signals[k].buy_score < 1000
        /\ B_signals[k].confidence.num > 0

\* --symbols: two symbols, and one symbol given twice
B_symbol_lists == {<<"AAPL", "MSFT">>, <<"AAPL", "AAPL">>}

\* what the account may hold before the run
B_holdings == SUBSET {"AAPL", "MSFT"}

\* the data one symbol's fetches may yield: a LONG against opposing votes, a
\* clear LONG, a clear SHORT, a NEUTRAL, a share too dear for one unit, a price
\* of 0; for analyze_all also the empty dict
B_datas(v) ==
    {Data(150, -6, 0, 250, 300, 80, 150, 150, 26),
     Data(150, 0, 0, 250, 300, 20, 150, 150, 18),
     Data(600, 0, 0, 250, 300, 80, 600, 600, 18),
     Data(150, 0, 0, 250, 300, 50, 150, 150, 18),
     Data(30000, 0, 0, 250, 300, 20, 30000, 30000, 18),
     Data(0, 0, 0, 250, 300, 20, 0, 0, 18)}
    \cup (IF v = "multi" THEN {NoData} ELSE {})

\* python multi_strategy_v2.py / ibkr_trader_v3.py, with or without --trade,
\* after ibkr.connect() succeeded
BrokerInit ==
    \E v \in {"multi", "volatility"}, syms \in B_symbol_lists,
       enable \in BOOLEAN, held \in B_holdings :
        BrokerInitAt(v, syms, enable, held)

B_analyze_all == B_analyze_allOn(B_datas(variant))

BrokerNext ==
    \/ B_analyze_all
    \/ M_execute_snapshot
    \/ M_execute_step
    \/ V_execute_order
    \/ B_Fill
    \/ B_Finish

SpecBroker == BrokerInit /\ [][BrokerNext]_vars

(***************************************************************************)
(* C26: in the broker-backed variants no order is submitted for a symbol   *)
(* the account already holds, at most one opening order per symbol is      *)
(* submitted in one run, also when the symbol list names a symbol twice,   *)
(* and a trade record is appended only when the broker call succeeded.     *)
(***************************************************************************)
C26_OneOrderPerHeldSymbol ==
    B_pc # "off" =>
        /\ \A k \in DOMAIN B_orders : ~B_orders[k].held
        /\ \A j, k \in DOMAIN B_orders :
                B_orders[j].symbol = B_orders[k].symbol => j = k
        /\ Len(B_trades) = Len(B_orders)
        /\ \A k \in DOMAIN B_trades :
                /\ B_trades[k].symbol = B_orders[k].symbol
                /\ B_trades[k].action = B_orders[k].action
                /\ B_trades[k].quantity = B_orders[k].quantity

(***************************************************************************)
(* check_positions on a position more than a day old: the process was      *)
(* suspended, or a fetch hung, over the closing time, and the loop goes on *)
(* the next day with the position still in self.positions.                 *)
(***************************************************************************)
AgedHoldings ==
    {DaySeconds + 30, DaySeconds + 601, DaySeconds + 901, 2 * DaySeconds + 450}

AgedInit == ExitInitOn(AgedHoldings)

SpecAged == AgedInit /\ [][ExitNext]_vars

(***************************************************************************)
(* C24: a position held longer than the time-stop ceiling (900 s adaptive, *)
(* 600 s realtime) for which neither take-profit nor stop-loss triggers is *)
(* closed with reason TIME_STOP at the first exit check that has its       *)
(* price, however long it has been held, more than 24 hours included.      *)
(***************************************************************************)
C24_TimeStopHoweverLong ==
    pc = "scan" =>
        \A i \in DOMAIN checked :
            ( /\ HasData(checked[i].data)
              /\ PrescribedExit(checked[i].pos, checked[i].data.price) = <<"TIME_STOP">> )
            => /\ Len(SignalsFor(i)) = 1
               /\ SignalsFor(i)[1].reason = "TIME_STOP"
               /\ checked[i].pos \notin {positions[k] : k \in DOMAIN positions}

(***************************************************************************)
(* C27: every close removes exactly one position from the active list and  *)
(* appends exactly one ledger entry, so that the number of positions ever  *)
(* opened equals the open positions plus the ledger entries: a step that   *)
(* closes keeps Len(positions) + Len(pnl_history), and only an opening     *)
(* raises it.                                                              *)
(***************************************************************************)
C27_PositionsConserved ==
    [][(pc = "check" \/ pnl_history' # pnl_history) =>
          /\ Len(pnl_history') - Len(pnl_history) = Len(close_signals')
          /\ Len(positions) - Len(positions') = Len(close_signals')
          /\ Len(positions') + Len(pnl_history') = Len(positions) + Len(pnl_history)]_vars

(***************************************************************************)
(* run() called again on the same trader.  run() leaves the loop at the    *)
(* closing time without closing anything, so self.positions still holds    *)
(* what was open; the next call starts with calculate_adaptive_params()    *)
(* and publishes the regime of that day.                                   *)
(***************************************************************************)
\* run() returned at 15:45:00, the position 31 minutes old and never quoted
RepublishHoldings == {31 * 60}

RepublishInit == ExitInitAt({"adaptive"}, RepublishHoldings, "done")

\* trader.run() on the next day, at the hour of the first run
A_run_again ==
    /\ variant = "adaptive" /\ pc = "done"
    /\ now < DaySeconds
    /\ pc' = "start"
    /\ now' = DaySeconds + A_start_time
    /\ scan_count' = 0
    /\ UNCHANGED <<simulator_vars, broker_vars, hours_vars, dashboard_vars>>
    /\ UNCHANGED <<variant, symbols, vol_samples, vol_info, positions, pnl_history,
                   last_trade_time, last_signal_time, checked, close_signals, scanned,
                   signals, cycle_log, last_close_time>>

A_republish == A_calculate_adaptive_paramsOn(ExitVolSamples)

\* the quotes of ExitPrices, and no quote
RepublishQuotes ==
    {<<d>> : d \in {NoData} \cup
        {DataOf("AAPL", [Bull EXCEPT !.price = x]) : x \in ExitPrices}}

A_ExitCheckRepublished == A_ExitCheckOn(RepublishQuotes)

RepublishNext ==
    \/ A_run_again
    \/ A_republish
    \/ BeginCycle
    \/ A_ExitCheckRepublished

SpecRepublish == RepublishInit /\ [][RepublishNext]_vars

\* the reasons check_positions returned for the i-th examined position
ReasonsFor(i) == {SignalsFor(i)[k].reason : k \in DOMAIN SignalsFor(i)}

(***************************************************************************)
(* C28: the exit decision agrees with the prices stored on the position,   *)
(* after any sequence of regime publications and cycles: a LONG position   *)
(* is closed as TAKE_PROFIT exactly when the current price is >= its       *)
(* stored take_profit and as STOP_LOSS exactly when the price is <= its    *)
(* stored stop_loss; mirrored for SHORT.                                   *)
(***************************************************************************)
C28_ExitAgreesWithStoredPrices ==
    (variant = "adaptive" /\ pc = "scan") =>
        \A i \in DOMAIN checked :
            HasData(checked[i].data) =>
                \E p \in {checked[i].pos}, price \in {checked[i].data.price * 1000} :
                    IF p.direction = "LONG"
                    THEN /\ ("TAKE_PROFIT" \in ReasonsFor(i)) = (price >= p.take_profit)
                         /\ ("STOP_LOSS" \in ReasonsFor(i)) = (price <= p.stop_loss)
                    ELSE /\ ("TAKE_PROFIT" \in ReasonsFor(i)) = (price <= p.take_profit)
                         /\ ("STOP_LOSS" \in ReasonsFor(i)) = (price >= p.stop_loss)

(***************************************************************************)
(* The supervisor of src/market_hours_trader.py (variant "hours"):         *)
(* run_loop calls check_and_manage every check_interval (60 s).  H_minute  *)
(* is the minute of the day is_market_open_et computes, and wraps at       *)
(* midnight; the child process may end on its own at any moment.           *)
(***************************************************************************)
DayMinutes == 24 * 60

\* is_market_open_et: open from 9:30 (570) up to, not including, 16:00 (960)
is_market_open_et(total_minutes) ==
    total_minutes >= 9 * 60 + 30 /\ total_minutes < 16 * 60

\* A process check that never sees the child
is_process_running_never(process) == FALSE

\* is_process_running: a handle exists and poll() returns None
is_process_running(process) == process = "running"

\* The fields start_trading and stop_trading work on, and what the call did
Supervisor(process, active, overlaps, did) ==
    [process |-> process, trading_active |-> active, overlaps |-> overlaps, did |-> did]

\* start_trading: the set of outcomes.  Popen either returns a new child,
\* which replaces the handle (an earlier child still running keeps running),
\* or raises, and the except branch returns False.
start_trading(process, active, overlaps) ==
    IF is_process_running(process) /\ active
    THEN {Supervisor(process, active, overlaps, "none")}
    ELSE {Supervisor("running", TRUE,
                     IF process = "running" THEN overlaps + 1 ELSE overlaps, "start_ok"),
          Supervisor(process, active, overlaps, "start_failed")}

\* stop_trading: the set of outcomes.  terminate() and wait(timeout=30) either
\* return, and the child has ended, or one of them raises (the child did not
\* end within 30 s) and the except branch returns False.
stop_trading(process, active, overlaps) ==
    IF ~is_process_running(process)
    THEN {Supervisor(process, active, overlaps, "none")}
    ELSE {Supervisor("exited", FALSE, overlaps, "stop_ok"),
          Supervisor(process, active, overlaps, "stop_failed")}

\* the status check_and_manage computes
H_status(open, running) ==
    IF open THEN (IF running THEN "running" ELSE "restarting")
    ELSE (IF running THEN "stopping" ELSE "stopped")

\* check_and_manage(): status, the start or stop it calls, self.last_status = status
check_and_manage ==
    /\ H_pc = "check"
    /\ \E open \in {is_market_open_et(H_minute)}, running \in {is_process_running(H_process)} :
       \E out \in (IF open /\ ~running
                   THEN start_trading(H_process, H_trading_active, H_overlaps)
                   ELSE IF ~open /\ running /\ H_last_status # "stopping"
                   THEN stop_trading(H_process, H_trading_active, H_overlaps)
                   ELSE {Supervisor(H_process, H_trading_active, H_overlaps, "none")}) :
            /\ H_process' = out.process
            /\ H_trading_active' = out.trading_active
            /\ H_overlaps' = out.overlaps
            /\ H_action' = out.did
            /\ H_last_status' = H_status(open, running)
    /\ H_pc' = "sleep"
    /\ UNCHANGED H_minute
    /\ UNCHANGED <<trader_vars, simulator_vars, broker_vars, dashboard_vars>>

\* time.sleep(self.check_interval), then the next iteration of run_loop
H_Sleep ==
    /\ H_pc = "sleep"
    /\ H_minute' = (H_minute + 1) % DayMinutes
    /\ H_pc' = "check"
    /\ UNCHANGED <<H_process, H_trading_active, H_last_status, H_action, H_overlaps>>
    /\ UNCHANGED <<trader_vars, simulator_vars, broker_vars, dashboard_vars>>

\* except KeyboardInterrupt: self.stop_trading(); break
H_Interrupt ==
    /\ H_pc \in {"check", "sleep"}
    /\ \E out \in stop_trading(H_process, H_trading_active, H_overlaps) :
            /\ H_process' = out.process
            /\ H_trading_active' = out.trading_active
            /\ H_overlaps' = out.overlaps
            /\ H_action' = out.did
    /\ H_pc' = "done"
    /\ UNCHANGED <<H_minute, H_last_status>>
    /\ UNCHANGED <<trader_vars, simulator_vars, broker_vars, dashboard_vars>>

\* the child (realtime_trader.py) ends on its own: its closing time, or a crash
H_ChildExit ==
    /\ H_pc \in {"check", "sleep"}
    /\ H_process = "running"
    /\ H_process' = "exited"
    /\ UNCHANGED <<H_pc, H_minute, H_trading_active, H_last_status, H_action, H_overlaps>>
    /\ UNCHANGED <<trader_vars, simulator_vars, broker_vars, dashboard_vars>>

\* the minutes at which python market_hours_trader.py --loop is started:
\* shortly before the open, and shortly before the close
H_starts == {9 * 60 + 28, 15 * 60 + 57}

HoursInit ==
    \E start \in H_starts :
        /\ variant = "hours"
        /\ NoTrader
        /\ SimulatorOff /\ BrokerOff /\ DashboardOff
        /\ H_pc = "check"
        /\ H_minute = start
        /\ H_process = "none"
        /\ H_trading_active = FALSE
        /\ H_last_status = "unknown"
        /\ H_action = "none"
        /\ H_overlaps = 0

HoursNext ==
    \/ check_and_manage
    \/ H_Sleep
    \/ H_Interrupt
    \/ H_ChildExit

SpecHours == HoursInit /\ [][HoursNext]_vars

(***************************************************************************)
(* C25: whenever check_and_manage finds the market closed and the trading  *)
(* process running, a stop is attempted at that check, so that a failed    *)
(* stop is retried at the later checks; and once a stop attempt has        *)
(* succeeded the process is stopped.                                       *)
(***************************************************************************)
C25_StopAttemptedWhileClosed ==
    /\ [][(/\ H_pc = "check" /\ H_pc' = "sleep"
           /\ ~is_market_open_et(H_minute)
           /\ H_process = "running")
              => H_action' \in {"stop_ok", "stop_failed"}]_vars
    /\ [](H_action = "stop_ok" => H_process # "running")

(***************************************************************************)
(* C29: MarketHoursTrader never launches a second trading process while    *)
(* one it launched is still running: every launch happens with no child,   *)
(* or with a child that has ended.                                         *)
(***************************************************************************)
C29_OneChildAtATime ==
    [][/\ (H_action' = "start_ok" /\ H_pc = "check" /\ H_pc' = "sleep")
            => H_process # "running"
       /\ H_overlaps' = 0]_vars

\* a launch by the restart branch of check_and_manage, well after the open
C29_Witness ==
    /\ H_pc = "sleep"
    /\ H_action = "start_ok"
    /\ H_last_status = "restarting"
    /\ H_process = "running"
    /\ H_minute > 9 * 60 + 40

(***************************************************************************)
(* The dashboard of src/trading_dashboard.py (variant "dashboard"): the    *)
(* ThreadedHTTPServer handles every request in a thread of its own, and    *)
(* GET /api/trade calls data.add_trade on the one global TradingData with  *)
(* no lock.  A thread can be preempted between the statements, and between *)
(* the evaluation of calculate_total_pnl() and the append that takes it.   *)
(***************************************************************************)
\* the pnl of the trade do_GET builds, in cents
D_trade_pnl == 1250

\* the requests GET /api/trade in flight, one thread each
D_requests == {1, 2, 3}

RECURSIVE SumFirst(_, _)
SumFirst(seq, k) == IF k = 0 THEN 0 ELSE SumFirst(seq, k - 1) + seq[k]

\* calculate_total_pnl
calculate_total_pnl(trades) == SumFirst(trades, Len(trades))

DashboardInit ==
    /\ variant = "dashboard"
    /\ NoTrader
    /\ SimulatorOff /\ BrokerOff /\ HoursOff
    /\ D_pc = [t \in D_requests |-> "idle"]
    /\ D_total = [t \in D_requests |-> 0]
    /\ D_trades = <<>>
    /\ D_pnl_history = <<>>

\* add_trade: self.trades.append(trade)
D_append_trade(t) ==
    /\ D_pc[t] = "idle"
    /\ D_trades' = Append(D_trades, D_trade_pnl)
    /\ D_pc' = [D_pc EXCEPT ![t] = "appended"]
    /\ UNCHANGED <<D_total, D_pnl_history>>
    /\ UNCHANGED <<trader_vars, simulator_vars, broker_vars, hours_vars>>

\* add_trade: the argument of the second append, self.calculate_total_pnl()
D_calculate(t) ==
    /\ D_pc[t] = "appended"
    /\ D_total' = [D_total EXCEPT ![t] = calculate_total_pnl(D_trades)]
    /\ D_pc' = [D_pc EXCEPT ![t] = "summed"]
    /\ UNCHANGED <<D_trades, D_pnl_history>>
    /\ UNCHANGED <<trader_vars, simulator_vars, broker_vars, hours_vars>>

\* add_trade: self.pnl_history.append({'time': ..., 'pnl': <the total>})
D_append_point(t) ==
    /\ D_pc[t] = "summed"
    /\ D_pnl_history' = Append(D_pnl_history, D_total[t])
    /\ D_pc' = [D_pc EXCEPT ![t] = "done"]
    /\ UNCHANGED <<D_total, D_trades>>
    /\ UNCHANGED <<trader_vars, simulator_vars, broker_vars, hours_vars>>

DashboardNext ==
    \E t \in D_requests :
        \/ D_append_trade(t)
        \/ D_calculate(t)
        \/ D_append_point(t)

SpecDashboard == DashboardInit /\ [][DashboardNext]_vars

(***************************************************************************)
(* C30: under any interleaving of concurrent add_trade calls, once the     *)
(* calls have returned pnl_history has exactly one point per trade and its *)
(* k-th point is the cumulative pnl of the first k trades.                 *)
(***************************************************************************)
C30_PnlHistoryCumulative ==
    (\A t \in D_requests : D_pc[t] \in {"idle", "done"}) =>
        /\ Len(D_pnl_history) = Len(D_trades)
        /\ \A k \in DOMAIN D_pnl_history : D_pnl_history[k] = SumFirst(D_trades, k)

====
